---- MODULE Spec2Model ----
(***************************************************************************)
(* BroCode: the order/cart and status-aggregation subsystem.               *)
(*                                                                         *)
(* The entity store (Postgres behind Supabase) is modelled as one set of   *)
(* rows per table.  The service operations of services/database.ts and the *)
(* page handlers that call them are the actions; the two database triggers *)
(* (update_mission_count_on_attendance, update_payment_drink_total) are    *)
(* operators applied inside the write that fires them.                     *)
(*                                                                         *)
(* Trigger records follow PostgreSQL 11 and later (every Supabase          *)
(* project): in a row-level trigger NEW is null for DELETE and OLD is null *)
(* for INSERT.  A null record is the empty set here, a row is a singleton. *)
(***************************************************************************)
EXTENDS Integers, FiniteSets, Sequences, TLC

\* ------------------------------------------------------------------------
\* Universe
\* ------------------------------------------------------------------------

Users == {"u1", "u2"}

\* profiles.role = 'admin'
Admins == {"u1"}

\* spot ids in the order createSpot hands them out
SpotIds == <<"s1", "s2">>

Spots == {SpotIds[i] : i \in DOMAIN SpotIds}

Brands == {"b1", "b2"}

\* the names a profile is given
Names == {"Bro", "Dude"}

\* the prices an admin gives a brand
Prices == {100, 150}

\* drink_brands.base_price of each catalogue brand, as first inserted
BasePrice == [b \in Brands |-> IF b = "b1" THEN 100 ELSE 150]

\* largest quantity of one cart line
MaxQty == 2

\* largest number of cart lines in the store
MaxLines == 2

\* largest mission_count a profile reaches
MaxMission == 3

\* largest number of drinks ever suggested
MaxDrinks == 1

\* largest number of voteForDrink calls in flight
MaxCalls == 2

\* largest number of realtime notifications waiting for their callback
MaxInbox == 2

\* largest number of cigarettes rows, and of foods rows, in the store
MaxExtras == 1

\* largest number of chat messages ever sent
MaxMessages == 2

\* largest unreadCount a chat provider reaches
MaxUnread == 2

\* the emoji of the reaction picker
Emojis == {"fire"}

PENDING == "pending"
CONFIRMED == "confirmed"
DECLINED == "declined"

InvitationStatus == {CONFIRMED, PENDING, DECLINED}

PAID == "paid"
NOT_PAID == "not_paid"

PaymentStatus == {PAID, NOT_PAID}

VARIABLES
  spots,          \* ids of the rows of table spots
  gone,           \* ids of spots that were deleted (a uuid is never reused)
  invitations,    \* rows of table invitations
  payments,       \* rows of table payments
  selections,     \* rows of table user_drink_selections
  attendance,     \* rows of table attendance
  mission_count,  \* profiles.mission_count, per profile id
  everAttended,   \* history: (spot, user) pairs that have been attended = true
  cs,             \* handleCreateSpot in progress
  pp,             \* PaymentPage.fetchData in progress
  last,           \* history: the operation on the tables above that
                  \* completed last
  drinks,         \* rows of table drinks
  drinkSeq,       \* number of drinks rows inserted so far
  calls,          \* voteForDrink calls between their read and their write
  voteHist,       \* history: two voteForDrink calls in a row on one drink
  base_price,     \* drink_brands.base_price, per brand id
  inbox,          \* realtime notifications received and not yet handled
  handled,        \* history: the notification handled last and what the
                  \* callback did with it
  read,           \* history: the read accessor called last, the error the
                  \* backend answered with, and what the accessor returned
  cigarettes,     \* rows of table cigarettes
  foods,          \* rows of table foods
  profile_name,   \* profiles.name, per profile id
  race,           \* history: voteForDrink calls of users who had not voted,
                  \* one call each, on one drink
  chat_messages,  \* rows of table chat_messages
  chatSeq,        \* number of chat_messages rows inserted so far
  chatLoaded,     \* clients whose ChatProvider has loaded and subscribed
  chatEvents,     \* chat_messages notifications on their way to a client
  messages,       \* ChatProvider state "messages", per client
  isChatActive,   \* ChatProvider state "isChatActive", per client
  unreadCount,    \* ChatProvider state "unreadCount", per client
  arrived,        \* history: messages that arrived at the client since its
                  \* chat was last active
  notifications,  \* rows of table notifications
  homeOpen,       \* clients whose HomePage has its spots channel open
  spotEvents      \* spots INSERT notifications on their way to a client

vars == <<spots, gone, invitations, payments, selections, attendance,
          mission_count, everAttended, cs, pp, last, drinks, drinkSeq, calls,
          voteHist, base_price, inbox, handled, read, cigarettes, foods,
          profile_name, race, chat_messages, chatSeq, chatLoaded,
          chatEvents, messages, isChatActive, unreadCount, arrived,
          notifications, homeOpen, spotEvents>>

clientVars == <<inbox, handled, read>>

extraVars == <<cigarettes, foods>>

chatVars == <<chat_messages, chatSeq, chatLoaded, chatEvents, messages,
              isChatActive, unreadCount, arrived>>

sideVars == <<profile_name, chatVars>>

notifVars == <<notifications, homeOpen, spotEvents>>

drinkVars == <<drinks, drinkSeq, calls, voteHist, race>>

\* ------------------------------------------------------------------------
\* History record of the last completed operation
\* ------------------------------------------------------------------------

NoOp ==
  [op |-> "none", via |-> "-", spot |-> "-", user |-> "-", brand |-> "-", status |-> "-",
   attended |-> FALSE, qty |-> 0, rep |-> 0, base |-> 0, had |-> FALSE,
   failed |-> FALSE, failedAt |-> "-", alerted |-> FALSE,
   refetched |-> FALSE]

NoCall == [user |-> "-", drink |-> <<>>, votes |-> 0, voted_by |-> <<>>]

NoVoteHist ==
  [stage |-> "none", slot |-> 0, drink |-> <<>>, user |-> "-", votes |-> 0,
   voters |-> {}]

NoRace ==
  [drink |-> <<>>, base |-> 0, voters |-> {}, joined |-> {}, done |-> {}]

NoNotification ==
  [screen |-> "-", table |-> "-", eventType |-> "-", effect |-> "-"]

\* the error object of a supabase response: its code and whether its message
\* contains 'relation' or 'does not exist'
NoError == [code |-> "-", relation |-> FALSE, doesNotExist |-> FALSE]

NoRead == [accessor |-> "-", error |-> NoError, kind |-> "-", rows |-> {}]

CsIdle == [pc |-> "idle", spot |-> "-", creator |-> "-", todo |-> {}]

PpIdle == [pc |-> "idle", spot |-> "-", missing |-> {}, failed |-> FALSE]

\* gen_random_uuid(): the id of a new row is made of its key and of the
\* number of rows that already carry that key (0 under a unique constraint)
RowId(table, key, n) == <<table, key, n>>

\* notificationService.createNotificationForAllUsers("New Spot Created!",
\* ...): one row per profile; s is the spot the message is about
CreateNotificationForAllUsers(tbl, s) ==
  tbl \cup
    {[id |-> RowId("notifications", u,
                   Cardinality({n \in tbl : n.user_id = u})),
      user_id |-> u, title |-> "New Spot Created!", spot |-> s, read |-> FALSE]
       : u \in Users}

Init ==
  /\ spots = {}
  /\ gone = {}
  /\ drinks = {}
  /\ drinkSeq = 0
  /\ calls = [k \in 1..MaxCalls |-> NoCall]
  /\ voteHist = NoVoteHist
  /\ race = NoRace
  /\ base_price = BasePrice
  /\ inbox = {}
  /\ handled = NoNotification
  /\ read = NoRead
  /\ cigarettes = {}
  /\ foods = {}
  /\ profile_name = [u \in Users |-> "Bro"]
  /\ chat_messages = {}
  /\ chatSeq = 0
  /\ chatLoaded = {}
  /\ chatEvents = {}
  /\ messages = [c \in Users |-> <<>>]
  /\ isChatActive = [c \in Users |-> FALSE]
  /\ unreadCount = [c \in Users |-> 0]
  /\ arrived = [c \in Users |-> 0]
  /\ notifications = {}
  /\ homeOpen = {}
  /\ spotEvents = {}
  /\ invitations = {}
  /\ payments = {}
  /\ selections = {}
  /\ attendance = {}
  /\ mission_count = [u \in Users |-> 0]
  /\ everAttended = {}
  /\ cs = CsIdle
  /\ pp = PpIdle
  /\ last = NoOp

\* ------------------------------------------------------------------------
\* Attendance and mission_count
\* ------------------------------------------------------------------------

\* variant: the increment ignores the old row
UpdateMissionCountIgnoringOld(mc, old, new) ==
  IF \E n \in new : n.attended = TRUE
  THEN LET u == (CHOOSE n \in new : TRUE).user_id
       IN  [mc EXCEPT ![u] = mc[u] + 1]
  ELSE mc

\* update_mission_count_on_attendance(): the function body
UpdateMissionCountOnAttendance(mc, old, new) ==
  IF \E n \in new :
       /\ n.attended = TRUE
       /\ (old = {} \/ \E o \in old : o.attended = FALSE)
  THEN LET u == (CHOOSE n \in new : TRUE).user_id
       IN  [mc EXCEPT ![u] = mc[u] + 1]
  ELSE mc

\* trigger_update_mission_count: AFTER INSERT OR UPDATE, WHEN (NEW.attended = true)
TriggerUpdateMissionCount(mc, old, new) ==
  IF \E n \in new : n.attended = TRUE
  THEN UpdateMissionCountOnAttendance(mc, old, new)
  ELSE mc

AttendanceRows(s, u) ==
  {r \in attendance : r.spot_id = s /\ r.user_id = u}

\* attendanceService.upsertAttendance: upsert on conflict (spot_id, user_id)
NewAttendanceRow(s, u, a) ==
  [id |-> RowId("attendance", <<s, u>>, 0),
   spot_id |-> s, user_id |-> u, attended |-> a]

UpsertAttendanceRows(s, u, a) ==
  IF AttendanceRows(s, u) # {}
  THEN {IF r \in AttendanceRows(s, u) THEN [r EXCEPT !.attended = a] ELSE r
          : r \in attendance}
  ELSE attendance \cup {NewAttendanceRow(s, u, a)}

\* the row the trigger sees as OLD: null on the insert path
UpsertAttendanceOld(s, u) == AttendanceRows(s, u)

\* HistoryPage.handleAttendance: upsertAttendance, then reload
HandleAttendance(u, s, a) ==
  /\ s \in spots
  /\ LET old == UpsertAttendanceOld(s, u)
         new == {NewAttendanceRow(s, u, a)}
         mc  == TriggerUpdateMissionCount(mission_count, old, new)
         same == /\ last.op = "upsertAttendance"
                 /\ last.spot = s /\ last.user = u /\ last.attended = a
     IN  /\ mc[u] <= MaxMission
         /\ attendance' = UpsertAttendanceRows(s, u, a)
         /\ mission_count' = mc
         /\ everAttended' = IF a THEN everAttended \cup {<<s, u>>}
                            ELSE everAttended
         /\ last' = [NoOp EXCEPT
               !.op = "upsertAttendance", !.spot = s, !.user = u,
               !.attended = a,
               !.had = (old # {}),
               !.rep = IF same /\ last.rep >= 1 THEN 2
                       ELSE IF old = {} THEN 1 ELSE 0,
               !.base = IF same /\ last.rep >= 1 THEN last.base
                        ELSE mission_count[u]]
  /\ UNCHANGED drinkVars
  /\ UNCHANGED base_price
  /\ UNCHANGED clientVars
  /\ UNCHANGED sideVars
  /\ UNCHANGED notifVars
  /\ UNCHANGED extraVars
  /\ UNCHANGED <<spots, gone, invitations, payments, selections, cs, pp>>

\* ------------------------------------------------------------------------
\* Profiles
\* ------------------------------------------------------------------------

\* the columns of a profiles row that a Partial<UserProfile> can name
ProfileColumns == {"name", "mission_count"}

\* the partial profiles a client can send
ProfileUpdates ==
  {[c \in cols |-> IF c = "name" THEN n ELSE m] :
     cols \in SUBSET ProfileColumns \ {{}}, n \in Names, m \in 0..MaxMission}

\* profileService.updateProfile: supabase.from('profiles').update(updates)
\* .eq('id', userId) sets every column the payload names
UpdateProfileRow(row, updates) ==
  [c \in ProfileColumns |-> IF c \in DOMAIN updates THEN updates[c] ELSE row[c]]

\* a client calls profileService.updateProfile(userId, updates)
UpdateProfile(u, updates) ==
  /\ updates \in ProfileUpdates
  /\ LET row == [c \in ProfileColumns |->
                   IF c = "name" THEN profile_name[u] ELSE mission_count[u]]
         new == UpdateProfileRow(row, updates)
     IN  /\ profile_name' = [profile_name EXCEPT ![u] = new["name"]]
         /\ mission_count' = [mission_count EXCEPT ![u] = new["mission_count"]]
  /\ last' = [NoOp EXCEPT !.op = "updateProfile", !.user = u]
  /\ UNCHANGED chatVars
  /\ UNCHANGED notifVars
  /\ UNCHANGED <<spots, gone, invitations, payments, selections, attendance,
                 everAttended, cs, pp>>
  /\ UNCHANGED drinkVars
  /\ UNCHANGED base_price
  /\ UNCHANGED clientVars
  /\ UNCHANGED extraVars

\* ------------------------------------------------------------------------
\* Invitations
\* ------------------------------------------------------------------------

InvitationRows(s, u) ==
  {r \in invitations : r.spot_id = s /\ r.user_id = u}

\* invitationService.getInvitations(spotId)
GetInvitations(s) ==
  {[id |-> r.id, spot_id |-> r.spot_id, user_id |-> r.user_id,
    status |-> r.status] : r \in {i \in invitations : i.spot_id = s}}

\* variant: a plain insert instead of the upsert
InsertInvitation(tbl, s, u, st) ==
  tbl \cup {[id |-> RowId("invitations", <<s, u>>,
                          Cardinality({r \in tbl :
                                         r.spot_id = s /\ r.user_id = u})),
             spot_id |-> s, user_id |-> u, status |-> st]}

\* invitationService.upsertInvitation: upsert on conflict (spot_id, user_id)
UpsertInvitation(tbl, s, u, st) ==
  IF \E r \in tbl : r.spot_id = s /\ r.user_id = u
  THEN {IF r.spot_id = s /\ r.user_id = u THEN [r EXCEPT !.status = st]
        ELSE r : r \in tbl}
  ELSE tbl \cup {[id |-> RowId("invitations", <<s, u>>, 0), spot_id |-> s,
                  user_id |-> u, status |-> st]}

\* invitationService.updateInvitationStatus: update ... where id = invitationId
UpdateInvitationStatus(tbl, invitationId, st) ==
  {IF r.id = invitationId THEN [r EXCEPT !.status = st] ELSE r : r \in tbl}

\* ------------------------------------------------------------------------
\* Payments
\* ------------------------------------------------------------------------

PaymentRows(s, u) ==
  {r \in payments : r.spot_id = s /\ r.user_id = u}

\* paymentService.getPayments(spotId): the mapped rows, as the service
\* returns them
GetPayments(s) ==
  {[id |-> r.id, spot_id |-> r.spot_id, user_id |-> r.user_id,
    status |-> r.status] : r \in {p \in payments : p.spot_id = s}}

\* variant: a plain insert instead of the upsert
InsertPayment(tbl, s, u, st) ==
  tbl \cup {[id |-> RowId("payments", <<s, u>>,
                          Cardinality({r \in tbl :
                                         r.spot_id = s /\ r.user_id = u})),
             spot_id |-> s, user_id |-> u, status |-> st,
             drink_total_amount |-> 0]}

\* paymentService.upsertPayment: upsert on conflict (spot_id, user_id); the
\* payload has no drink_total_amount, so an insert takes the column default
\* and an update leaves the column alone
UpsertPayment(tbl, s, u, st) ==
  IF \E r \in tbl : r.spot_id = s /\ r.user_id = u
  THEN {IF r.spot_id = s /\ r.user_id = u THEN [r EXCEPT !.status = st]
        ELSE r : r \in tbl}
  ELSE tbl \cup {[id |-> RowId("payments", <<s, u>>, 0), spot_id |-> s,
                  user_id |-> u, status |-> st, drink_total_amount |-> 0]}

\* paymentService.updatePaymentStatus: update ... where id = paymentId
UpdatePaymentStatus(tbl, paymentId, st) ==
  {IF r.id = paymentId THEN [r EXCEPT !.status = st] ELSE r : r \in tbl}

\* ------------------------------------------------------------------------
\* Spots
\* ------------------------------------------------------------------------

\* the id spotService.createSpot gives the next new row
FreshSpots ==
  {s \in Spots : s \notin spots \cup gone /\
     \A i, j \in DOMAIN SpotIds :
        (SpotIds[j] = s /\ i < j) => SpotIds[i] \in spots \cup gone}

\* handleCreateSpot, up to the profiles query: spotService.createSpot
\* inserts the spot; when the profiles query fails the fan-out is skipped
CreateSpotBegin(a, s, usersOk) ==
  /\ a \in Admins
  /\ cs.pc = "idle"
  /\ s \in FreshSpots
  /\ spots' = spots \cup {s}
  /\ cs' = [pc |-> IF usersOk THEN "fanout" ELSE "confirm", spot |-> s,
            creator |-> a, todo |-> IF usersOk THEN Users ELSE {}]
  /\ spotEvents' = spotEvents \cup {[client |-> c, spot |-> s] : c \in homeOpen}
  /\ UNCHANGED <<notifications, homeOpen>>
  /\ UNCHANGED drinkVars
  /\ UNCHANGED base_price
  /\ UNCHANGED clientVars
  /\ UNCHANGED sideVars
  /\ UNCHANGED extraVars
  /\ UNCHANGED <<gone, invitations, payments, selections, attendance,
                 mission_count, everAttended, pp, last>>

\* one upsertInvitation(pending) of the Promise.all fan-out arrives
CreateSpotInvite(u) ==
  /\ cs.pc = "fanout"
  /\ u \in cs.todo
  /\ cs.spot \in spots
  /\ invitations' = UpsertInvitation(invitations, cs.spot, u, PENDING)
  /\ cs' = [cs EXCEPT !.todo = cs.todo \ {u},
                      !.pc = IF cs.todo = {u} THEN "confirm" ELSE "fanout"]
  /\ UNCHANGED drinkVars
  /\ UNCHANGED base_price
  /\ UNCHANGED clientVars
  /\ UNCHANGED sideVars
  /\ UNCHANGED notifVars
  /\ UNCHANGED extraVars
  /\ UNCHANGED <<spots, gone, payments, selections, attendance,
                 mission_count, everAttended, pp, last>>

\* "Auto-confirm the creator's invitation"
CreateSpotConfirm ==
  /\ cs.pc = "confirm"
  /\ cs.spot \in spots
  /\ invitations' = UpsertInvitation(invitations, cs.spot, cs.creator,
                                     CONFIRMED)
  /\ cs' = [cs EXCEPT !.pc = "notify"]
  /\ UNCHANGED drinkVars
  /\ UNCHANGED base_price
  /\ UNCHANGED clientVars
  /\ UNCHANGED sideVars
  /\ UNCHANGED notifVars
  /\ UNCHANGED extraVars
  /\ UNCHANGED <<spots, gone, payments, selections, attendance,
                 mission_count, everAttended, pp, last>>

\* notifications, modal reset and fetchData: the handler returns
CreateSpotEnd ==
  /\ cs.pc = "notify"
  /\ cs' = CsIdle
  /\ notifications' = CreateNotificationForAllUsers(notifications, cs.spot)
  /\ last' = [NoOp EXCEPT !.op = "handleCreateSpot", !.spot = cs.spot,
                          !.user = cs.creator, !.status = CONFIRMED]
  /\ UNCHANGED <<homeOpen, spotEvents>>
  /\ UNCHANGED drinkVars
  /\ UNCHANGED base_price
  /\ UNCHANGED clientVars
  /\ UNCHANGED sideVars
  /\ UNCHANGED extraVars
  /\ UNCHANGED <<spots, gone, invitations, payments, selections, attendance,
                 mission_count, everAttended, pp>>

\* an upsertInvitation of the handler meets a deleted spot (foreign key):
\* it throws and the handler ends in its catch block
CreateSpotAbort ==
  /\ cs.pc \in {"fanout", "confirm"}
  /\ cs.spot \notin spots
  /\ cs' = CsIdle
  /\ last' = [NoOp EXCEPT !.op = "handleCreateSpot", !.spot = cs.spot,
                          !.user = cs.creator, !.failed = TRUE]
  /\ UNCHANGED drinkVars
  /\ UNCHANGED base_price
  /\ UNCHANGED clientVars
  /\ UNCHANGED sideVars
  /\ UNCHANGED notifVars
  /\ UNCHANGED extraVars
  /\ UNCHANGED <<spots, gone, invitations, payments, selections, attendance,
                 mission_count, everAttended, pp>>

\* foreign keys of the main schema: invitations.spot_id and payments.spot_id
\* reference spots(id) ON DELETE CASCADE
CascadeMainSchema(tbl, s) == {r \in tbl : r.spot_id # s}

\* variant: the foreign key has no ON DELETE CASCADE action that removes
\* the rows
CascadeSpotKeepingRows(tbl, s) == tbl

\* attendance.spot_id, user_drink_selections.spot_id, drinks.spot_id,
\* cigarettes.spot_id and foods.spot_id: ON DELETE CASCADE
CascadeSpot(tbl, s) == {r \in tbl : r.spot_id # s}

\* spotService.deleteSpot, from the admin's delete buttons.  The cascaded
\* delete of selection lines fires trigger_update_payment_drink_total with
\* NEW null, which updates no payment row; attendance has no DELETE trigger.
DeleteSpot(a, s) ==
  /\ a \in Admins
  /\ s \in spots
  /\ spots' = spots \ {s}
  /\ gone' = gone \cup {s}
  /\ invitations' = CascadeMainSchema(invitations, s)
  /\ payments' = CascadeMainSchema(payments, s)
  /\ selections' = CascadeSpot(selections, s)
  /\ attendance' = CascadeSpot(attendance, s)
  /\ drinks' = CascadeSpot(drinks, s)
  /\ cigarettes' = CascadeSpot(cigarettes, s)
  /\ foods' = CascadeSpot(foods, s)
  /\ last' = [NoOp EXCEPT !.op = "deleteSpot", !.spot = s, !.user = a]
  /\ race' = IF \E d \in CascadeSpot(drinks, s) : d.id = race.drink
             THEN race ELSE NoRace
  /\ UNCHANGED <<drinkSeq, calls, voteHist>>
  /\ UNCHANGED base_price
  /\ UNCHANGED clientVars
  /\ UNCHANGED sideVars
  /\ UNCHANGED notifVars
  /\ UNCHANGED <<mission_count, everAttended, cs, pp>>

\* ------------------------------------------------------------------------
\* RSVP
\* ------------------------------------------------------------------------

\* variant: no inner try block, a payment failure reaches the outer catch
RsvpReportUnguarded(invOk, payFailed) ==
  [alerted |-> ~invOk \/ payFailed, refetched |-> invOk /\ ~payFailed]

\* what the try / catch blocks of handleRSVP and handleCreateRSVP leave the
\* user with.  A failed invitation write reaches the outer catch (alert, no
\* fetchData); a failure inside the inner try block is logged and swallowed
\* and the handler goes on to "await fetchData()"
RsvpReport(invOk, payFailed) ==
  [alerted |-> ~invOk, refetched |-> invOk]

\* variant: leaving confirmed removes the user's payment row
HandleRSVPDroppingPayment(u, s, st, invOk, payOk) ==
  /\ s \in spots
  /\ InvitationRows(s, u) # {}
  /\ LET inv == CHOOSE r \in InvitationRows(s, u) : TRUE
         payFailed == invOk /\ st = CONFIRMED /\ ~payOk
         report == RsvpReport(invOk, payFailed)
     IN  /\ invitations' = IF invOk
                           THEN UpdateInvitationStatus(invitations, inv.id, st)
                           ELSE invitations
         /\ payments' = IF invOk /\ st = CONFIRMED /\ payOk
                        THEN UpsertPayment(payments, s, u, NOT_PAID)
                        ELSE IF invOk /\ st # CONFIRMED
                        THEN payments \ PaymentRows(s, u)
                        ELSE payments
         /\ last' = [NoOp EXCEPT !.op = "handleRSVP", !.spot = s, !.user = u,
                                 !.status = st,
                                 !.had = (PaymentRows(s, u) # {}),
                                 !.failed = (~invOk \/ payFailed),
                                 !.failedAt = IF ~invOk THEN "invitation"
                                              ELSE IF payFailed THEN "payment"
                                              ELSE "-",
                                 !.alerted = report.alerted,
                                 !.refetched = report.refetched]
  /\ UNCHANGED drinkVars
  /\ UNCHANGED base_price
  /\ UNCHANGED clientVars
  /\ UNCHANGED sideVars
  /\ UNCHANGED notifVars
  /\ UNCHANGED extraVars
  /\ UNCHANGED <<spots, gone, selections, attendance, mission_count,
                 everAttended, cs, pp>>

\* HomePage.handleRSVP(myInvitation.id, status).  invOk = FALSE:
\* updateInvitationStatus throws.  payOk = FALSE: the inner try block
\* (getUserIdAsUUID, upsertPayment) throws.
HandleRSVP(u, s, st, invOk, payOk) ==
  /\ s \in spots
  /\ InvitationRows(s, u) # {}
  /\ LET inv == CHOOSE r \in InvitationRows(s, u) : TRUE
         payFailed == invOk /\ st = CONFIRMED /\ ~payOk
         report == RsvpReport(invOk, payFailed)
     IN  /\ invitations' = IF invOk
                           THEN UpdateInvitationStatus(invitations, inv.id, st)
                           ELSE invitations
         /\ payments' = IF invOk /\ st = CONFIRMED /\ payOk
                        THEN UpsertPayment(payments, s, u, NOT_PAID)
                        ELSE payments
         /\ last' = [NoOp EXCEPT !.op = "handleRSVP", !.spot = s, !.user = u,
                                 !.status = st,
                                 !.had = (PaymentRows(s, u) # {}),
                                 !.failed = (~invOk \/ payFailed),
                                 !.failedAt = IF ~invOk THEN "invitation"
                                              ELSE IF payFailed THEN "payment"
                                              ELSE "-",
                                 !.alerted = report.alerted,
                                 !.refetched = report.refetched]
  /\ UNCHANGED drinkVars
  /\ UNCHANGED base_price
  /\ UNCHANGED clientVars
  /\ UNCHANGED sideVars
  /\ UNCHANGED notifVars
  /\ UNCHANGED extraVars
  /\ UNCHANGED <<spots, gone, selections, attendance, mission_count,
                 everAttended, cs, pp>>

\* HomePage.handleCreateRSVP(status), offered while the page's copy of the
\* invitations has none for the user; the store may have one by then (the
\* fan-out of handleCreateSpot), which the upsert then updates.
\* invOk = FALSE: getUserIdAsUUID or upsertInvitation throws.
HandleCreateRSVP(u, s, st, invOk, payOk) ==
  /\ s \in spots
  /\ LET payFailed == invOk /\ st = CONFIRMED /\ ~payOk
         report == RsvpReport(invOk, payFailed)
     IN  /\ invitations' = IF invOk
                           THEN UpsertInvitation(invitations, s, u, st)
                           ELSE invitations
         /\ payments' = IF invOk /\ st = CONFIRMED /\ payOk
                        THEN UpsertPayment(payments, s, u, NOT_PAID)
                        ELSE payments
         /\ last' = [NoOp EXCEPT !.op = "handleCreateRSVP", !.spot = s,
                                 !.user = u, !.status = st,
                                 !.had = (PaymentRows(s, u) # {}),
                                 !.failed = (~invOk \/ payFailed),
                                 !.failedAt = IF ~invOk THEN "invitation"
                                              ELSE IF payFailed THEN "payment"
                                              ELSE "-",
                                 !.alerted = report.alerted,
                                 !.refetched = report.refetched]
  /\ UNCHANGED drinkVars
  /\ UNCHANGED base_price
  /\ UNCHANGED clientVars
  /\ UNCHANGED sideVars
  /\ UNCHANGED notifVars
  /\ UNCHANGED extraVars
  /\ UNCHANGED <<spots, gone, selections, attendance, mission_count,
                 everAttended, cs, pp>>

\* ------------------------------------------------------------------------
\* PaymentPage
\* ------------------------------------------------------------------------

\* fetchData, the reads: confirmed invitations without a payment row
MissingPayments(s) ==
  {i.user_id : i \in {r \in GetInvitations(s) : r.status = CONFIRMED}}
    \ {p.user_id : p \in GetPayments(s)}

\* fetchData up to the upserts being issued
FetchPaymentsRead(s) ==
  /\ pp.pc = "idle"
  /\ s \in spots
  /\ MissingPayments(s) # {}
  /\ pp' = [pc |-> "upsert", spot |-> s, missing |-> MissingPayments(s),
            failed |-> FALSE]
  /\ UNCHANGED drinkVars
  /\ UNCHANGED base_price
  /\ UNCHANGED clientVars
  /\ UNCHANGED sideVars
  /\ UNCHANGED notifVars
  /\ UNCHANGED extraVars
  /\ UNCHANGED <<spots, gone, invitations, payments, selections, attendance,
                 mission_count, everAttended, cs, last>>

\* one upsertPayment(not_paid) of the backfill arrives; a failure (ok = FALSE,
\* or the spot is gone) is caught per promise
FetchPaymentsUpsert(u, ok) ==
  /\ pp.pc = "upsert"
  /\ u \in pp.missing
  /\ payments' = IF ok /\ pp.spot \in spots
                 THEN UpsertPayment(payments, pp.spot, u, NOT_PAID)
                 ELSE payments
  /\ pp' = [pp EXCEPT !.missing = pp.missing \ {u},
                      !.failed = pp.failed \/ ~(ok /\ pp.spot \in spots)]
  /\ UNCHANGED drinkVars
  /\ UNCHANGED base_price
  /\ UNCHANGED clientVars
  /\ UNCHANGED sideVars
  /\ UNCHANGED notifVars
  /\ UNCHANGED extraVars
  /\ UNCHANGED <<spots, gone, invitations, selections, attendance,
                 mission_count, everAttended, cs, last>>

\* Promise.all has settled: getPayments again, setPayments
FetchPaymentsEnd ==
  /\ pp.pc = "upsert"
  /\ pp.missing = {}
  /\ pp' = PpIdle
  /\ last' = [NoOp EXCEPT !.op = "fetchPayments", !.spot = pp.spot,
                          !.failed = pp.failed]
  /\ UNCHANGED drinkVars
  /\ UNCHANGED base_price
  /\ UNCHANGED clientVars
  /\ UNCHANGED sideVars
  /\ UNCHANGED notifVars
  /\ UNCHANGED extraVars
  /\ UNCHANGED <<spots, gone, invitations, payments, selections, attendance,
                 mission_count, everAttended, cs>>

\* fetchData when every confirmed user already has a payment row
FetchPaymentsNoop(s) ==
  /\ pp.pc = "idle"
  /\ s \in spots
  /\ MissingPayments(s) = {}
  /\ last' = [NoOp EXCEPT !.op = "fetchPayments", !.spot = s]
  /\ UNCHANGED drinkVars
  /\ UNCHANGED base_price
  /\ UNCHANGED clientVars
  /\ UNCHANGED sideVars
  /\ UNCHANGED notifVars
  /\ UNCHANGED extraVars
  /\ UNCHANGED <<spots, gone, invitations, payments, selections, attendance,
                 mission_count, everAttended, cs, pp>>

\* PaymentPage.handleMarkPaid / handleMarkUnpaid: "if (!isAdmin) return"
HandleMark(a, paymentId, st) ==
  /\ a \in Admins
  /\ \E p \in payments : p.id = paymentId
  /\ payments' = UpdatePaymentStatus(payments, paymentId, st)
  /\ last' = [NoOp EXCEPT
        !.op = IF st = PAID THEN "markPaid" ELSE "markUnpaid",
        !.spot = (CHOOSE p \in payments : p.id = paymentId).spot_id,
        !.user = (CHOOSE p \in payments : p.id = paymentId).user_id,
        !.status = st]
  /\ UNCHANGED drinkVars
  /\ UNCHANGED base_price
  /\ UNCHANGED clientVars
  /\ UNCHANGED sideVars
  /\ UNCHANGED notifVars
  /\ UNCHANGED extraVars
  /\ UNCHANGED <<spots, gone, invitations, selections, attendance,
                 mission_count, everAttended, cs, pp>>

HandleMarkPaid(a, paymentId) == HandleMark(a, paymentId, PAID)

HandleMarkUnpaid(a, paymentId) == HandleMark(a, paymentId, NOT_PAID)

\* ------------------------------------------------------------------------
\* Cart: user_drink_selections and payments.drink_total_amount
\* ------------------------------------------------------------------------

SelectionRows(s, u) ==
  {r \in selections : r.spot_id = s /\ r.user_id = u}

RECURSIVE SumTotalPrice(_)
\* SUM(total_price) over a set of selection rows
SumTotalPrice(rows) ==
  IF rows = {} THEN 0
  ELSE LET r == CHOOSE x \in rows : TRUE
       IN  r.total_price + SumTotalPrice(rows \ {r})

\* update_payment_drink_total(): UPDATE payments SET drink_total_amount =
\* COALESCE(SUM(total_price), 0) WHERE spot_id = NEW.spot_id AND user_id =
\* NEW.user_id.  sel is the selections table after the triggering write.
\* With NEW null both comparisons are null and no row is updated.
UpdatePaymentDrinkTotal(pay, sel, new) ==
  {IF \E n \in new : p.spot_id = n.spot_id /\ p.user_id = n.user_id
   THEN [p EXCEPT !.drink_total_amount =
           SumTotalPrice({r \in sel : \E n \in new :
                            r.spot_id = n.spot_id /\ r.user_id = n.user_id})]
   ELSE p : p \in pay}

\* the row userDrinkSelectionService.upsertSelection sends
NewSelectionRow(s, u, b, q, price) ==
  [id |-> RowId("user_drink_selections", <<s, u, b>>, 0), spot_id |-> s,
   user_id |-> u, drink_brand_id |-> b, quantity |-> q, unit_price |-> price,
   total_price |-> q * price]

\* variant: on conflict the new quantity is added to the stored one
UpsertSelectionAdding(sel, s, u, b, q, price) ==
  IF \E r \in sel : r.spot_id = s /\ r.user_id = u /\ r.drink_brand_id = b
  THEN {IF r.spot_id = s /\ r.user_id = u /\ r.drink_brand_id = b
        THEN [r EXCEPT !.quantity = r.quantity + q, !.unit_price = price,
                       !.total_price = (r.quantity + q) * price]
        ELSE r : r \in sel}
  ELSE sel \cup {NewSelectionRow(s, u, b, q, price)}

\* upsert on conflict (spot_id, user_id, drink_brand_id)
UpsertSelection(sel, s, u, b, q, price) ==
  IF \E r \in sel : r.spot_id = s /\ r.user_id = u /\ r.drink_brand_id = b
  THEN {IF r.spot_id = s /\ r.user_id = u /\ r.drink_brand_id = b
        THEN [r EXCEPT !.quantity = q, !.unit_price = price,
                       !.total_price = q * price]
        ELSE r : r \in sel}
  ELSE sel \cup {NewSelectionRow(s, u, b, q, price)}

\* userDrinkSelectionService.deleteSelection: delete ... where id = selectionId
DeleteSelection(sel, selectionId) == {r \in sel : r.id # selectionId}

\* userDrinkSelectionService.getUserSelections(spotId, userId)
GetUserSelections(s, u) ==
  {[id |-> r.id, spot_id |-> r.spot_id, user_id |-> r.user_id,
    drink_brand_id |-> r.drink_brand_id, quantity |-> r.quantity,
    unit_price |-> r.unit_price, total_price |-> r.total_price]
     : r \in SelectionRows(s, u)}

\* variant: the constraint admits a zero quantity
CheckQuantityNonNegative(row) == row.quantity >= 0

\* user_drink_selections: quantity INTEGER NOT NULL DEFAULT 1 CHECK (quantity > 0)
CheckQuantity(row) == row.quantity > 0

\* upsertSelection and the AFTER INSERT OR UPDATE trigger.  A row the CHECK
\* constraint rejects makes the statement fail: nothing is written and
\* upsertSelection throws
DoUpsertSelection(via, s, u, b, q, price) ==
  /\ s \in spots
  /\ (\E r \in selections :
         r.spot_id = s /\ r.user_id = u /\ r.drink_brand_id = b)
       \/ Cardinality(selections) < MaxLines
  /\ LET ok  == CheckQuantity(NewSelectionRow(s, u, b, q, price))
         sel == IF ok THEN UpsertSelection(selections, s, u, b, q, price)
                ELSE selections
         new == {r \in sel :
                   r.spot_id = s /\ r.user_id = u /\ r.drink_brand_id = b}
         same == /\ last.op = "upsertSelection"
                 /\ last.spot = s /\ last.user = u /\ last.brand = b
                 /\ last.qty = q /\ last.base = price
     IN  /\ selections' = sel
         /\ payments' = IF ok THEN UpdatePaymentDrinkTotal(payments, sel, new)
                        ELSE payments
         /\ last' = [NoOp EXCEPT
               !.op = "upsertSelection", !.via = via, !.spot = s, !.user = u,
               !.brand = b, !.qty = q, !.base = price,
               !.had = (PaymentRows(s, u) # {}),
               !.failed = ~ok,
               !.rep = IF same THEN 2 ELSE 1]
  /\ UNCHANGED <<spots, gone, invitations, attendance, mission_count,
                 everAttended, cs, pp>>
  /\ UNCHANGED drinkVars
  /\ UNCHANGED base_price
  /\ UNCHANGED clientVars
  /\ UNCHANGED sideVars
  /\ UNCHANGED notifVars
  /\ UNCHANGED extraVars

\* the store after deleteSelection and the AFTER DELETE trigger (NEW null)
DoDeleteSelection(via, row) ==
  /\ row \in selections
  /\ LET sel == DeleteSelection(selections, row.id)
     IN  /\ selections' = sel
         /\ payments' = UpdatePaymentDrinkTotal(payments, sel, {})
  /\ last' = [NoOp EXCEPT
        !.op = "deleteSelection", !.via = via, !.spot = row.spot_id,
        !.user = row.user_id, !.brand = row.drink_brand_id,
        !.had = (PaymentRows(row.spot_id, row.user_id) # {})]
  /\ UNCHANGED drinkVars
  /\ UNCHANGED base_price
  /\ UNCHANGED clientVars
  /\ UNCHANGED sideVars
  /\ UNCHANGED notifVars
  /\ UNCHANGED extraVars
  /\ UNCHANGED <<spots, gone, invitations, attendance, mission_count,
                 everAttended, cs, pp>>

\* DrinksPage.handleAddToCart(brand, quantity): unit_price = brand.base_price
HandleAddToCart(u, s, b, q) ==
  /\ q \in 1..MaxQty
  /\ DoUpsertSelection("handleAddToCart", s, u, b, q, base_price[b])

\* variant: only a negative quantity deletes the line
HandleUpdateQuantityBelowZero(row, newQuantity) ==
  /\ row \in selections
  /\ newQuantity <= MaxQty
  /\ IF newQuantity < 0
     THEN DoDeleteSelection("handleUpdateQuantity", row)
     ELSE DoUpsertSelection("handleUpdateQuantity", row.spot_id, row.user_id,
                            row.drink_brand_id, newQuantity, row.unit_price)

\* variant: the line is repriced at the brand's current base_price
HandleUpdateQuantityRepricing(row, newQuantity) ==
  /\ row \in selections
  /\ newQuantity <= MaxQty
  /\ IF newQuantity <= 0
     THEN DoDeleteSelection("handleUpdateQuantity", row)
     ELSE DoUpsertSelection("handleUpdateQuantity", row.spot_id, row.user_id,
                            row.drink_brand_id, newQuantity,
                            base_price[row.drink_brand_id])

\* DrinksPage.handleUpdateQuantity(selection, newQuantity), from the cart's
\* minus and plus buttons; selection is the line as fetchData last loaded
\* it, which every cart handler awaits before it returns
HandleUpdateQuantity(row, newQuantity) ==
  /\ row \in selections
  /\ newQuantity <= MaxQty
  /\ IF newQuantity <= 0
     THEN DoDeleteSelection("handleUpdateQuantity", row)
     ELSE DoUpsertSelection("handleUpdateQuantity", row.spot_id, row.user_id,
                            row.drink_brand_id, newQuantity, row.unit_price)

\* DrinksPage.handleRemoveSelection(selection.id)
HandleRemoveSelection(row) ==
  DoDeleteSelection("handleRemoveSelection", row)

\* upsertSelection when update_payment_drink_total raises (its UPDATE of
\* payments fails).  The trigger runs AFTER ... FOR EACH ROW inside the
\* statement and the function has no EXCEPTION clause: the statement is
\* aborted, no selection row is written, and upsertSelection throws the
\* error to its caller
UpsertSelectionAborted(u, s, b, q, price) ==
  /\ s \in spots
  /\ CheckQuantity(NewSelectionRow(s, u, b, q, price))
  /\ last' = [NoOp EXCEPT
        !.op = "upsertSelection", !.via = "upsertSelection", !.spot = s,
        !.user = u, !.brand = b, !.qty = q, !.base = price,
        !.had = (PaymentRows(s, u) # {}),
        !.failed = TRUE, !.failedAt = "trigger"]
  /\ UNCHANGED <<spots, gone, invitations, payments, selections, attendance,
                 mission_count, everAttended, cs, pp>>
  /\ UNCHANGED drinkVars
  /\ UNCHANGED base_price
  /\ UNCHANGED clientVars
  /\ UNCHANGED sideVars
  /\ UNCHANGED notifVars
  /\ UNCHANGED extraVars

\* deleteSelection when update_payment_drink_total raises: the delete is
\* aborted with the statement and deleteSelection throws
DeleteSelectionAborted(row) ==
  /\ row \in selections
  /\ last' = [NoOp EXCEPT
        !.op = "deleteSelection", !.via = "deleteSelection",
        !.spot = row.spot_id, !.user = row.user_id,
        !.brand = row.drink_brand_id,
        !.had = (PaymentRows(row.spot_id, row.user_id) # {}),
        !.failed = TRUE, !.failedAt = "trigger"]
  /\ UNCHANGED <<spots, gone, invitations, payments, selections, attendance,
                 mission_count, everAttended, cs, pp>>
  /\ UNCHANGED drinkVars
  /\ UNCHANGED base_price
  /\ UNCHANGED clientVars
  /\ UNCHANGED sideVars
  /\ UNCHANGED notifVars
  /\ UNCHANGED extraVars

\* a direct call of userDrinkSelectionService.upsertSelection
UpsertSelectionCall(u, s, b, q, price) ==
  DoUpsertSelection("upsertSelection", s, u, b, q, price)

\* policy "Admins can manage drink brands": an admin changes a base_price
ManageBrandPrice(a, b, price) ==
  /\ a \in Admins
  /\ price # base_price[b]
  /\ base_price' = [base_price EXCEPT ![b] = price]
  /\ UNCHANGED clientVars
  /\ UNCHANGED sideVars
  /\ UNCHANGED notifVars
  /\ UNCHANGED extraVars
  /\ UNCHANGED <<spots, gone, invitations, payments, selections, attendance,
                 mission_count, everAttended, cs, pp, last>>
  /\ UNCHANGED drinkVars

\* ------------------------------------------------------------------------
\* Drinks: suggestions and votes
\* ------------------------------------------------------------------------

\* the ids of an array, as a set
Voters(votedBy) == {votedBy[i] : i \in DOMAIN votedBy}

\* drinkService.createDrink: insert with votes 0 and voted_by []
NewDrinkRow(s, u, n) ==
  [id |-> RowId("drinks", s, n), spot_id |-> s, suggested_by |-> u,
   votes |-> 0, voted_by |-> <<>>]

\* variant: the vote is added whether or not the user has voted
VoteToggleAlwaysAdds(drink, userId) ==
  [votes |-> drink.votes + 1, voted_by |-> Append(drink.voted_by, userId)]

\* variant: removing a vote lowers the count and keeps the voter id
VoteToggleKeepsVoter(drink, userId) ==
  IF userId \in Voters(drink.voted_by)
  THEN [votes |-> IF drink.votes - 1 > 0 THEN drink.votes - 1 ELSE 0,
        voted_by |-> drink.voted_by]
  ELSE [votes |-> drink.votes + 1,
        voted_by |-> Append(drink.voted_by, userId)]

\* drinkService.voteForDrink, the values computed from the row it read:
\* hasVoted, then filter and Math.max(0, votes - 1), or append and votes + 1
VoteToggle(drink, userId) ==
  IF userId \in Voters(drink.voted_by)
  THEN [votes |-> IF drink.votes - 1 > 0 THEN drink.votes - 1 ELSE 0,
        voted_by |-> SelectSeq(drink.voted_by, LAMBDA id : id # userId)]
  ELSE [votes |-> drink.votes + 1,
        voted_by |-> Append(drink.voted_by, userId)]

\* the in-flight calls on drink d other than slot k
OtherCalls(k, d) == {j \in DOMAIN calls : j # k /\ calls[j].drink = d}

\* DrinksPage.handleAddDrink: createDrink for the current spot
HandleAddDrink(u, s) ==
  /\ s \in spots
  /\ drinkSeq < MaxDrinks
  /\ drinks' = drinks \cup {NewDrinkRow(s, u, drinkSeq)}
  /\ drinkSeq' = drinkSeq + 1
  /\ UNCHANGED <<spots, gone, invitations, payments, selections, attendance,
                 mission_count, everAttended, cs, pp, last, calls, voteHist,
                 race>>
  /\ UNCHANGED base_price
  /\ UNCHANGED clientVars
  /\ UNCHANGED sideVars
  /\ UNCHANGED notifVars
  /\ UNCHANGED extraVars

\* DrinksPage.handleDeleteDrink: drinkService.deleteDrink
HandleDeleteDrink(d) ==
  /\ d \in drinks
  /\ drinks' = drinks \ {d}
  /\ race' = IF race.drink = d.id THEN NoRace ELSE race
  /\ UNCHANGED <<spots, gone, invitations, payments, selections, attendance,
                 mission_count, everAttended, cs, pp, last, drinkSeq, calls,
                 voteHist>>
  /\ UNCHANGED base_price
  /\ UNCHANGED clientVars
  /\ UNCHANGED sideVars
  /\ UNCHANGED notifVars
  /\ UNCHANGED extraVars

\* voteForDrink, first statement: select * from drinks where id = drinkId.
\* Slot k holds the row as read.
VoteForDrinkRead(k, u, d) ==
  /\ calls[k] = NoCall
  /\ d \in drinks
  /\ calls' = [calls EXCEPT ![k] = [user |-> u, drink |-> d.id,
                                    votes |-> d.votes,
                                    voted_by |-> d.voted_by]]
  /\ voteHist' =
       IF OtherCalls(k, d.id) # {} THEN voteHist
       ELSE IF /\ voteHist.stage = "once"
               /\ voteHist.drink = d.id /\ voteHist.user = u
            THEN [voteHist EXCEPT !.stage = "second", !.slot = k]
            ELSE [stage |-> "first", slot |-> k, drink |-> d.id, user |-> u,
                  votes |-> d.votes, voters |-> Voters(d.voted_by)]
  /\ race' =
       IF race.drink = d.id
       THEN IF u \notin race.joined /\ u \notin race.voters
            THEN [race EXCEPT !.joined = race.joined \cup {u}]
            ELSE NoRace
       ELSE IF OtherCalls(k, d.id) = {} /\ u \notin Voters(d.voted_by)
            THEN [drink |-> d.id, base |-> d.votes,
                  voters |-> Voters(d.voted_by), joined |-> {u}, done |-> {}]
            ELSE race
  /\ UNCHANGED <<spots, gone, invitations, payments, selections, attendance,
                 mission_count, everAttended, cs, pp, last, drinks, drinkSeq>>
  /\ UNCHANGED base_price
  /\ UNCHANGED clientVars
  /\ UNCHANGED sideVars
  /\ UNCHANGED notifVars
  /\ UNCHANGED extraVars

\* voteForDrink, second statement: update drinks set votes, voted_by where
\* id = drinkId.  When the row is gone ".single()" fails and the call throws.
VoteForDrinkWrite(k) ==
  /\ calls[k] # NoCall
  /\ LET c == calls[k]
         upd == VoteToggle(c, c.user)
     IN  /\ drinks' = {IF r.id = c.drink
                       THEN [r EXCEPT !.votes = upd.votes,
                                      !.voted_by = upd.voted_by]
                       ELSE r : r \in drinks}
         /\ voteHist' =
              IF voteHist.slot = k
              THEN IF \E r \in drinks : r.id = c.drink
                   THEN [voteHist EXCEPT
                           !.stage = IF voteHist.stage = "first"
                                     THEN "once" ELSE "twice",
                           !.slot = 0]
                   ELSE NoVoteHist
              ELSE IF voteHist.drink = c.drink THEN NoVoteHist
              ELSE voteHist
         /\ race' =
              IF race.drink # c.drink THEN race
              ELSE IF /\ c.user \in race.joined \ race.done
                      /\ \E r \in drinks : r.id = c.drink
                   THEN [race EXCEPT !.done = race.done \cup {c.user}]
                   ELSE NoRace
  /\ calls' = [calls EXCEPT ![k] = NoCall]
  /\ UNCHANGED <<spots, gone, invitations, payments, selections, attendance,
                 mission_count, everAttended, cs, pp, last, drinkSeq>>
  /\ UNCHANGED base_price
  /\ UNCHANGED clientVars
  /\ UNCHANGED sideVars
  /\ UNCHANGED notifVars
  /\ UNCHANGED extraVars

\* ------------------------------------------------------------------------
\* Cigarettes and foods
\* ------------------------------------------------------------------------

\* DrinksPage.handleAddCigarette: cigaretteService.createCigarette inserts a
\* row for the current spot
HandleAddCigarette(u, s) ==
  /\ s \in spots
  /\ Cardinality(cigarettes) < MaxExtras
  /\ cigarettes' = cigarettes \cup
       {[id |-> RowId("cigarettes", s,
                      Cardinality({c \in cigarettes : c.spot_id = s})),
         spot_id |-> s, added_by |-> u]}
  /\ UNCHANGED foods
  /\ UNCHANGED <<spots, gone, invitations, payments, selections, attendance,
                 mission_count, everAttended, cs, pp, last>>
  /\ UNCHANGED drinkVars
  /\ UNCHANGED base_price
  /\ UNCHANGED clientVars
  /\ UNCHANGED sideVars
  /\ UNCHANGED notifVars

\* DrinksPage.handleAddFood: foodService.createFood inserts a row for the
\* current spot
HandleAddFood(u, s) ==
  /\ s \in spots
  /\ Cardinality(foods) < MaxExtras
  /\ foods' = foods \cup
       {[id |-> RowId("foods", s, Cardinality({f \in foods : f.spot_id = s})),
         spot_id |-> s, added_by |-> u]}
  /\ UNCHANGED cigarettes
  /\ UNCHANGED <<spots, gone, invitations, payments, selections, attendance,
                 mission_count, everAttended, cs, pp, last>>
  /\ UNCHANGED drinkVars
  /\ UNCHANGED base_price
  /\ UNCHANGED clientVars
  /\ UNCHANGED sideVars
  /\ UNCHANGED notifVars

\* ------------------------------------------------------------------------
\* Realtime: postgres_changes subscriptions of the screens
\* ------------------------------------------------------------------------

\* payload.eventType of a postgres_changes notification (event: '*')
EventTypes == {"INSERT", "UPDATE", "DELETE"}

\* the channels each screen opens, as <<screen, table>>
Subscriptions ==
  {<<"HomePage", "spots">>, <<"HomePage", "invitations">>,
   <<"PaymentPage", "payments">>,
   <<"DrinksPage", "drinks">>, <<"DrinksPage", "user_drink_selections">>,
   <<"ChatProvider", "chat_messages">>}

\* the condition under which the screen's effect opens its channels:
\* "if (spot)" on HomePage and PaymentPage, "if (spot && isPaid)" on
\* DrinksPage, none in ChatProvider
Subscribed(screen) ==
  CASE screen = "HomePage" -> spots # {}
    [] screen = "PaymentPage" -> spots # {}
    [] screen = "DrinksPage" ->
         spots # {} /\ \E p \in payments : p.status = PAID
    [] OTHER -> TRUE

\* HomePage, callback of subscribeToSpots
HomeOnSpots(eventType) ==
  IF eventType = "UPDATE" \/ eventType = "INSERT" THEN "fetchData"
  ELSE "none"

\* HomePage, callback of subscribeToInvitations
HomeOnInvitations(eventType) == "fetchData"

\* PaymentPage, callback of subscribeToPayments
PaymentOnPayments(eventType) == "fetchData"

\* DrinksPage, callbacks of the drinks and selections channels
DrinksOnChange(eventType) == "fetchData"

\* ChatProvider, callback of the chat-messages channel: an INSERT loads the
\* one new message and appends it, a DELETE filters the local list, an
\* UPDATE falls through
ChatOnMessages(eventType) ==
  IF eventType = "INSERT" THEN "appendOne"
  ELSE IF eventType = "DELETE" THEN "removeOne"
  ELSE "none"

\* a change of a watched table reaches a screen that has the channel open
RealtimeNotify(screen, table, eventType) ==
  /\ <<screen, table>> \in Subscriptions
  /\ Subscribed(screen)
  /\ Cardinality(inbox) < MaxInbox
  /\ inbox' = inbox \cup {[screen |-> screen, table |-> table,
                            eventType |-> eventType]}
  /\ UNCHANGED <<spots, gone, invitations, payments, selections, attendance,
                 mission_count, everAttended, cs, pp, last, handled,
                 read>>
  /\ UNCHANGED extraVars
  /\ UNCHANGED sideVars
  /\ UNCHANGED notifVars
  /\ UNCHANGED drinkVars
  /\ UNCHANGED base_price

\* the screen's callback runs on notification n
RealtimeCallback(n, effect) ==
  /\ n \in inbox
  /\ inbox' = inbox \ {n}
  /\ handled' = [screen |-> n.screen, table |-> n.table,
                 eventType |-> n.eventType, effect |-> effect]
  /\ UNCHANGED <<spots, gone, invitations, payments, selections, attendance,
                 mission_count, everAttended, cs, pp, last, read>>
  /\ UNCHANGED extraVars
  /\ UNCHANGED sideVars
  /\ UNCHANGED notifVars
  /\ UNCHANGED drinkVars
  /\ UNCHANGED base_price

HomeSpotsCallback(n) ==
  /\ n.screen = "HomePage" /\ n.table = "spots"
  /\ RealtimeCallback(n, HomeOnSpots(n.eventType))

HomeInvitationsCallback(n) ==
  /\ n.screen = "HomePage" /\ n.table = "invitations"
  /\ RealtimeCallback(n, HomeOnInvitations(n.eventType))

PaymentsCallback(n) ==
  /\ n.screen = "PaymentPage"
  /\ RealtimeCallback(n, PaymentOnPayments(n.eventType))

DrinksCallback(n) ==
  /\ n.screen = "DrinksPage"
  /\ RealtimeCallback(n, DrinksOnChange(n.eventType))

ChatCallback(n) ==
  /\ n.screen = "ChatProvider"
  /\ RealtimeCallback(n, ChatOnMessages(n.eventType))

\* ------------------------------------------------------------------------
\* HomePage: the spots channel and the "New Spot Created!" notifications
\* ------------------------------------------------------------------------

\* HomePage's subscription effect with a spot loaded ("if (spot)"): the
\* client's spots channel is open
HomeSubscribe(c) ==
  /\ c \notin homeOpen
  /\ Subscribed("HomePage")
  /\ homeOpen' = homeOpen \cup {c}
  /\ UNCHANGED <<notifications, spotEvents>>
  /\ UNCHANGED <<spots, gone, invitations, payments, selections, attendance,
                 mission_count, everAttended, cs, pp, last>>
  /\ UNCHANGED drinkVars
  /\ UNCHANGED base_price
  /\ UNCHANGED clientVars
  /\ UNCHANGED extraVars
  /\ UNCHANGED sideVars

\* the effect's cleanup (the page is left): removeChannel
HomeUnsubscribe(c) ==
  /\ c \in homeOpen
  /\ homeOpen' = homeOpen \ {c}
  /\ spotEvents' = {ev \in spotEvents : ev.client # c}
  /\ UNCHANGED notifications
  /\ UNCHANGED <<spots, gone, invitations, payments, selections, attendance,
                 mission_count, everAttended, cs, pp, last>>
  /\ UNCHANGED drinkVars
  /\ UNCHANGED base_price
  /\ UNCHANGED clientVars
  /\ UNCHANGED extraVars
  /\ UNCHANGED sideVars

\* the spots callback on an INSERT: fetchData, then "Notify all users in
\* database"
HomeSpotsInsertCallback(ev) ==
  /\ ev \in spotEvents
  /\ spotEvents' = spotEvents \ {ev}
  /\ notifications' = CreateNotificationForAllUsers(notifications, ev.spot)
  /\ UNCHANGED homeOpen
  /\ UNCHANGED <<spots, gone, invitations, payments, selections, attendance,
                 mission_count, everAttended, cs, pp, last>>
  /\ UNCHANGED drinkVars
  /\ UNCHANGED base_price
  /\ UNCHANGED clientVars
  /\ UNCHANGED extraVars
  /\ UNCHANGED sideVars

\* ------------------------------------------------------------------------
\* Chat: ChatProvider, one per client; a client is named by its user
\* ------------------------------------------------------------------------

storeVars == <<spots, gone, invitations, payments, selections, attendance,
               mission_count, everAttended, cs, pp, base_price, profile_name>>

\* reactions: {} of a new message
NoReactions == [e \in Emojis |-> <<>>]

RECURSIVE SortedMessages(_)
\* select ... from chat_messages order by created_at ascending, mapped to
\* ChatMessage
SortedMessages(rows) ==
  IF rows = {} THEN <<>>
  ELSE LET r == CHOOSE x \in rows : \A y \in rows : x.seq <= y.seq
       IN  <<[id |-> r.id, user_id |-> r.user_id, reactions |-> r.reactions]>>
             \o SortedMessages(rows \ {r})

\* users.splice(users.indexOf(userId), 1)
RemoveFirst(users, userId) ==
  LET i == CHOOSE k \in 1..Len(users) :
             users[k] = userId /\ \A j \in 1..(k - 1) : users[j] # userId
  IN  SubSeq(users, 1, i - 1) \o SubSeq(users, i + 1, Len(users))

\* the "Unread count logic" effect, run after a render in which messages or
\* isChatActive has changed
UnreadEffect(active, msgs, unread) ==
  IF ~active /\ Len(msgs) > 0 THEN unread + 1 ELSE unread

\* the channel 'chat-messages' delivers the change to every subscribed client
ChatBroadcast(eventType, id) ==
  {[client |-> c, eventType |-> eventType, id |-> id] : c \in chatLoaded}

\* ChatProvider mounts: loadMessages sets the list, the channel is subscribed
ChatLoad(c) ==
  /\ c \notin chatLoaded
  /\ LET loaded == SortedMessages(chat_messages)
     IN  /\ UnreadEffect(isChatActive[c], loaded, unreadCount[c]) <= MaxUnread
         /\ messages' = [messages EXCEPT ![c] = loaded]
         /\ unreadCount' = [unreadCount EXCEPT ![c] =
                              UnreadEffect(isChatActive[c], loaded, @)]
  /\ chatLoaded' = chatLoaded \cup {c}
  /\ UNCHANGED <<chat_messages, chatSeq, chatEvents, isChatActive, arrived>>
  /\ UNCHANGED <<storeVars, last>>
  /\ UNCHANGED notifVars
  /\ UNCHANGED drinkVars
  /\ UNCHANGED clientVars
  /\ UNCHANGED extraVars

\* ChatPage mounts (true) or unmounts (false): setChatActive(isActive)
SetChatActive(c, isActive) ==
  /\ c \in chatLoaded
  /\ isActive # isChatActive[c]
  /\ LET unread == IF isActive THEN 0
                   ELSE UnreadEffect(isActive, messages[c], unreadCount[c])
     IN  /\ unread <= MaxUnread
         /\ unreadCount' = [unreadCount EXCEPT ![c] = unread]
  /\ isChatActive' = [isChatActive EXCEPT ![c] = isActive]
  /\ arrived' = [arrived EXCEPT ![c] = 0]
  /\ UNCHANGED <<chat_messages, chatSeq, chatLoaded, chatEvents, messages>>
  /\ UNCHANGED <<storeVars, last>>
  /\ UNCHANGED notifVars
  /\ UNCHANGED drinkVars
  /\ UNCHANGED clientVars
  /\ UNCHANGED extraVars

\* sendMessage from ChatPage: insert with reactions {}, then the returned
\* row is appended to the local list "for better UX"
SendMessage(c) ==
  /\ c \in chatLoaded
  /\ isChatActive[c]
  /\ chatSeq < MaxMessages
  /\ LET id == RowId("chat_messages", c, chatSeq)
         msg == [id |-> id, user_id |-> c, reactions |-> NoReactions]
     IN  /\ chat_messages' = chat_messages \cup
              {[id |-> id, seq |-> chatSeq, user_id |-> c,
                reactions |-> NoReactions]}
         /\ chatEvents' = chatEvents \cup ChatBroadcast("INSERT", id)
         /\ messages' = [messages EXCEPT ![c] = Append(@, msg)]
  /\ chatSeq' = chatSeq + 1
  /\ last' = [NoOp EXCEPT !.op = "sendMessage", !.user = c]
  /\ UNCHANGED <<chatLoaded, isChatActive, unreadCount, arrived>>
  /\ UNCHANGED storeVars
  /\ UNCHANGED notifVars
  /\ UNCHANGED drinkVars
  /\ UNCHANGED clientVars
  /\ UNCHANGED extraVars

\* the subscription callback on an INSERT: the new row is fetched by id and,
\* when found, appended to the local list
ChatOnInsert(ev) ==
  /\ ev \in chatEvents
  /\ ev.eventType = "INSERT"
  /\ LET c == ev.client
         found == {r \in chat_messages : r.id = ev.id}
         msgs == IF found = {} THEN messages[c]
                 ELSE messages[c] \o SortedMessages(found)
         unread == IF found = {} THEN unreadCount[c]
                   ELSE UnreadEffect(isChatActive[c], msgs, unreadCount[c])
     IN  /\ unread <= MaxUnread
         /\ messages' = [messages EXCEPT ![c] = msgs]
         /\ unreadCount' = [unreadCount EXCEPT ![c] = unread]
         /\ arrived' = [arrived EXCEPT ![c] =
                          IF found # {} /\ ~isChatActive[c] THEN @ + 1 ELSE @]
  /\ chatEvents' = chatEvents \ {ev}
  /\ UNCHANGED <<chat_messages, chatSeq, chatLoaded, isChatActive>>
  /\ UNCHANGED <<storeVars, last>>
  /\ UNCHANGED notifVars
  /\ UNCHANGED drinkVars
  /\ UNCHANGED clientVars
  /\ UNCHANGED extraVars

\* deleteMessage from ChatPage: delete ... where id = messageId and user_id
\* = userId, then the message is filtered out of the local list
DeleteMessage(c, id) ==
  /\ c \in chatLoaded
  /\ isChatActive[c]
  /\ \E i \in DOMAIN messages[c] : messages[c][i].id = id
  /\ LET hit == {r \in chat_messages : r.id = id /\ r.user_id = c}
     IN  /\ chat_messages' = chat_messages \ hit
         /\ chatEvents' = IF hit = {} THEN chatEvents
                          ELSE chatEvents \cup ChatBroadcast("DELETE", id)
  /\ messages' = [messages EXCEPT ![c] = SelectSeq(@, LAMBDA m : m.id # id)]
  /\ last' = [NoOp EXCEPT !.op = "deleteMessage", !.user = c]
  /\ UNCHANGED <<chatSeq, chatLoaded, isChatActive, unreadCount, arrived>>
  /\ UNCHANGED storeVars
  /\ UNCHANGED notifVars
  /\ UNCHANGED drinkVars
  /\ UNCHANGED clientVars
  /\ UNCHANGED extraVars

\* the subscription callback on a DELETE: prev.filter(m => m.id !==
\* payload.old.id)
ChatOnDelete(ev) ==
  /\ ev \in chatEvents
  /\ ev.eventType = "DELETE"
  /\ LET c == ev.client
         msgs == SelectSeq(messages[c], LAMBDA m : m.id # ev.id)
         unread == UnreadEffect(isChatActive[c], msgs, unreadCount[c])
     IN  /\ unread <= MaxUnread
         /\ messages' = [messages EXCEPT ![c] = msgs]
         /\ unreadCount' = [unreadCount EXCEPT ![c] = unread]
  /\ chatEvents' = chatEvents \ {ev}
  /\ UNCHANGED <<chat_messages, chatSeq, chatLoaded, isChatActive, arrived>>
  /\ UNCHANGED <<storeVars, last>>
  /\ UNCHANGED notifVars
  /\ UNCHANGED drinkVars
  /\ UNCHANGED clientVars
  /\ UNCHANGED extraVars

\* addReaction, the reactions object it writes, computed from the message
\* as the local list has it (the stored row is not read)
ToggleReaction(local, emoji, userId) ==
  IF userId \in Voters(local[emoji])
  THEN [local EXCEPT ![emoji] = RemoveFirst(@, userId)]
  ELSE [local EXCEPT ![emoji] = Append(@, userId)]

\* addReaction(messageId, emoji) from ChatPage: update chat_messages set
\* reactions where id = messageId, then the local copy is replaced.  The
\* subscription callback has no UPDATE branch, so no other client learns of
\* the write.
AddReaction(c, id, emoji) ==
  /\ c \in chatLoaded
  /\ isChatActive[c]
  /\ \E i \in DOMAIN messages[c] : messages[c][i].id = id
  /\ LET i == CHOOSE k \in DOMAIN messages[c] :
                 /\ messages[c][k].id = id
                 /\ \A j \in 1..(k - 1) : messages[c][j].id # id
         currentMessage == messages[c][i]
         reactions == ToggleReaction(currentMessage.reactions, emoji, c)
     IN  /\ chat_messages' =
              {IF r.id = id THEN [r EXCEPT !.reactions = reactions] ELSE r
                 : r \in chat_messages}
         /\ messages' =
              [messages EXCEPT ![c] =
                 [k \in DOMAIN @ |->
                    IF @[k].id = id THEN [@[k] EXCEPT !.reactions = reactions]
                    ELSE @[k]]]
  /\ last' = [NoOp EXCEPT !.op = "addReaction", !.user = c]
  /\ UNCHANGED <<chatSeq, chatLoaded, chatEvents, isChatActive, unreadCount,
                 arrived>>
  /\ UNCHANGED storeVars
  /\ UNCHANGED notifVars
  /\ UNCHANGED drinkVars
  /\ UNCHANGED clientVars
  /\ UNCHANGED extraVars

\* ------------------------------------------------------------------------
\* Read accessors and backend errors
\* ------------------------------------------------------------------------

\* Postgres 42P01: relation "public.t" does not exist
UndefinedTable == [code |-> "42P01", relation |-> TRUE, doesNotExist |-> TRUE]

\* Postgres 42703: column t.c does not exist
UndefinedColumn ==
  [code |-> "42703", relation |-> FALSE, doesNotExist |-> TRUE]

\* PostgREST PGRST116: no row for a single-row request
NoRowsFound == [code |-> "PGRST116", relation |-> FALSE, doesNotExist |-> FALSE]

\* a failure that is not about the schema (the request did not get through)
FetchFailed == [code |-> "", relation |-> FALSE, doesNotExist |-> FALSE]

BackendErrors ==
  {NoError, UndefinedTable, UndefinedColumn, NoRowsFound, FetchFailed}

SchemaMissing == {UndefinedTable, UndefinedColumn}

Returns(rows) == [kind |-> "returns", rows |-> rows]

Throws == [kind |-> "throws", rows |-> {}]

\* getDrinks, getCigarettes, getFoods: "If table doesn't exist, return empty
\* array instead of throwing"
DegradingRead(error, rows) ==
  IF error = NoError THEN Returns(rows)
  ELSE IF error.doesNotExist \/ error.relation \/ error.code = "42P01"
       THEN Returns({})
       ELSE Throws

\* getUserSelections, getAllSelections, getDrinkBrands, getPayments,
\* getInvitations: "if (error) { console.error(...); throw error; }"
ThrowingRead(error, rows) ==
  IF error = NoError THEN Returns(rows) ELSE Throws

\* drinkService.getDrinks(spotId)
GetDrinks(error, s) ==
  DegradingRead(error, {d \in drinks : d.spot_id = s})

\* cigaretteService.getCigarettes(spotId)
GetCigarettes(error, s) ==
  DegradingRead(error, {c \in cigarettes : c.spot_id = s})

\* foodService.getFoods(spotId)
GetFoods(error, s) == DegradingRead(error, {f \in foods : f.spot_id = s})

\* userDrinkSelectionService.getUserSelections(spotId, userId)
GetUserSelectionsRead(error, s, u) ==
  ThrowingRead(error, GetUserSelections(s, u))

\* userDrinkSelectionService.getAllSelections(spotId)
GetAllSelections(error, s) ==
  ThrowingRead(error, UNION {GetUserSelections(s, u) : u \in Users})

\* drinkBrandService.getDrinkBrands()
GetDrinkBrands(error) ==
  ThrowingRead(error, {[id |-> b, base_price |-> base_price[b]] : b \in Brands})

\* paymentService.getPayments(spotId)
GetPaymentsRead(error, s) == ThrowingRead(error, GetPayments(s))

\* invitationService.getInvitations(spotId)
GetInvitationsRead(error, s) == ThrowingRead(error, GetInvitations(s))

\* spotService.getUpcomingSpot(): PGRST116 is "No rows found - this is
\* okay" (null); a message with 'relation' or 'does not exist' is rethrown
\* as 'Database tables not found'; any other error is thrown
GetUpcomingSpot(error) ==
  IF error = NoError THEN Returns(spots)
  ELSE IF error.code = "PGRST116" THEN Returns({})
  ELSE IF error.relation \/ error.doesNotExist THEN Throws
  ELSE Throws

\* a read accessor is called and the backend answers with error
ReadCall(accessor, error, result) ==
  /\ error \in BackendErrors
  /\ read' = [accessor |-> accessor, error |-> error, kind |-> result.kind,
              rows |-> result.rows]
  /\ UNCHANGED <<spots, gone, invitations, payments, selections, attendance,
                 mission_count, everAttended, cs, pp, last, inbox, handled>>
  /\ UNCHANGED extraVars
  /\ UNCHANGED sideVars
  /\ UNCHANGED notifVars
  /\ UNCHANGED drinkVars
  /\ UNCHANGED base_price

ReadDrinks(error, s) == ReadCall("getDrinks", error, GetDrinks(error, s))

ReadCigarettes(error, s) ==
  ReadCall("getCigarettes", error, GetCigarettes(error, s))

ReadFoods(error, s) == ReadCall("getFoods", error, GetFoods(error, s))

ReadUserSelections(error, s, u) ==
  ReadCall("getUserSelections", error, GetUserSelectionsRead(error, s, u))

ReadAllSelections(error, s) ==
  ReadCall("getAllSelections", error, GetAllSelections(error, s))

ReadDrinkBrands(error) ==
  ReadCall("getDrinkBrands", error, GetDrinkBrands(error))

ReadPayments(error, s) ==
  ReadCall("getPayments", error, GetPaymentsRead(error, s))

ReadInvitations(error, s) ==
  ReadCall("getInvitations", error, GetInvitationsRead(error, s))

ReadUpcomingSpot(error) ==
  ReadCall("getUpcomingSpot", error, GetUpcomingSpot(error))

\* ------------------------------------------------------------------------
\* Specifications
\* ------------------------------------------------------------------------

CreateSpotSteps ==
  \/ \E a \in Users, s \in Spots, usersOk \in BOOLEAN :
        CreateSpotBegin(a, s, usersOk)
  \/ \E u \in Users : CreateSpotInvite(u)
  \/ CreateSpotConfirm
  \/ CreateSpotEnd
  \/ CreateSpotAbort

\* attendance history: spots come and go, users record attendance
NextAttendance ==
  \/ CreateSpotSteps
  \/ \E a \in Users, s \in Spots : DeleteSpot(a, s)
  \/ \E u \in Users, s \in Spots, a \in BOOLEAN : HandleAttendance(u, s, a)

SpecAttendance == Init /\ [][NextAttendance]_vars

\* RSVP and payment status
NextRsvp ==
  \/ CreateSpotSteps
  \/ \E a \in Users, s \in Spots : DeleteSpot(a, s)
  \/ \E u \in Users, s \in Spots, st \in InvitationStatus,
        invOk \in BOOLEAN, payOk \in BOOLEAN :
        HandleRSVP(u, s, st, invOk, payOk)
  \/ \E u \in Users, s \in Spots, st \in InvitationStatus,
        invOk \in BOOLEAN, payOk \in BOOLEAN :
        HandleCreateRSVP(u, s, st, invOk, payOk)
  \/ \E s \in Spots : FetchPaymentsRead(s)
  \/ \E u \in Users, ok \in BOOLEAN : FetchPaymentsUpsert(u, ok)
  \/ FetchPaymentsEnd
  \/ \E s \in Spots : FetchPaymentsNoop(s)
  \/ \E a \in Users, p \in payments : HandleMarkPaid(a, p.id)
  \/ \E a \in Users, p \in payments : HandleMarkUnpaid(a, p.id)

\* the store once the first spot has been created and deleted again: the
\* RSVP handlers are followed through the whole life of the next spot
InitSecondSpot ==
  /\ spots = {}
  /\ gone = {SpotIds[1]}
  /\ drinks = {}
  /\ drinkSeq = 0
  /\ calls = [k \in 1..MaxCalls |-> NoCall]
  /\ voteHist = NoVoteHist
  /\ race = NoRace
  /\ base_price = BasePrice
  /\ inbox = {}
  /\ handled = NoNotification
  /\ read = NoRead
  /\ cigarettes = {}
  /\ foods = {}
  /\ profile_name = [u \in Users |-> "Bro"]
  /\ chat_messages = {}
  /\ chatSeq = 0
  /\ chatLoaded = {}
  /\ chatEvents = {}
  /\ messages = [c \in Users |-> <<>>]
  /\ isChatActive = [c \in Users |-> FALSE]
  /\ unreadCount = [c \in Users |-> 0]
  /\ arrived = [c \in Users |-> 0]
  /\ notifications = CreateNotificationForAllUsers({}, SpotIds[1])
  /\ homeOpen = {}
  /\ spotEvents = {}
  /\ invitations = {}
  /\ payments = {}
  /\ selections = {}
  /\ attendance = {}
  /\ mission_count = [u \in Users |-> 0]
  /\ everAttended = {}
  /\ cs = CsIdle
  /\ pp = PpIdle
  /\ last = [NoOp EXCEPT !.op = "deleteSpot", !.spot = SpotIds[1],
                         !.user = CHOOSE a \in Admins : TRUE]

SpecRsvp == InitSecondSpot /\ [][NextRsvp]_vars

\* the cart: users confirm (which creates their payment row) and order
NextCart ==
  \/ CreateSpotSteps
  \/ \E u \in Users, s \in Spots : HandleRSVP(u, s, CONFIRMED, TRUE, TRUE)
  \/ \E u \in Users, s \in Spots : HandleCreateRSVP(u, s, CONFIRMED, TRUE, TRUE)
  \/ \E u \in Users, s \in Spots, b \in Brands, q \in 1..MaxQty :
        HandleAddToCart(u, s, b, q)
  \/ \E row \in selections, d \in {-1, 1} :
        HandleUpdateQuantity(row, row.quantity + d)
  \/ \E row \in selections : HandleRemoveSelection(row)
  \/ \E a \in Users, s \in Spots : DeleteSpot(a, s)

SpecCart == InitSecondSpot /\ [][NextCart]_vars

\* the order: the cart handlers with any quantity, while the admin reprices
\* the catalogue
NextOrder ==
  \/ \E a \in Users, s \in Spots : DeleteSpot(a, s)
  \/ \E u \in Users, s \in Spots, b \in Brands, q \in 1..MaxQty :
        HandleAddToCart(u, s, b, q)
  \/ \E row \in selections, q \in (-1)..MaxQty :
        HandleUpdateQuantity(row, q)
  \/ \E row \in selections : HandleRemoveSelection(row)
  \/ \E a \in Users, b \in Brands, price \in Prices :
        ManageBrandPrice(a, b, price)

\* the store when handleCreateSpot has returned for the second spot: every
\* profile is invited, the creator is confirmed
InitSpotCreated ==
  /\ spots = {SpotIds[2]}
  /\ gone = {SpotIds[1]}
  /\ invitations =
       LET a == CHOOSE x \in Admins : TRUE
       IN  {[id |-> RowId("invitations", <<SpotIds[2], u>>, 0),
             spot_id |-> SpotIds[2], user_id |-> u,
             status |-> IF u = a THEN CONFIRMED ELSE PENDING] : u \in Users}
  /\ payments = {}
  /\ selections = {}
  /\ attendance = {}
  /\ mission_count = [u \in Users |-> 0]
  /\ everAttended = {}
  /\ cs = CsIdle
  /\ pp = PpIdle
  /\ last = [NoOp EXCEPT !.op = "handleCreateSpot", !.spot = SpotIds[2],
                         !.user = CHOOSE a \in Admins : TRUE,
                         !.status = CONFIRMED]
  /\ drinks = {}
  /\ drinkSeq = 0
  /\ calls = [k \in 1..MaxCalls |-> NoCall]
  /\ voteHist = NoVoteHist
  /\ race = NoRace
  /\ base_price = BasePrice
  /\ inbox = {}
  /\ handled = NoNotification
  /\ read = NoRead
  /\ cigarettes = {}
  /\ foods = {}
  /\ profile_name = [u \in Users |-> "Bro"]
  /\ chat_messages = {}
  /\ chatSeq = 0
  /\ chatLoaded = {}
  /\ chatEvents = {}
  /\ messages = [c \in Users |-> <<>>]
  /\ isChatActive = [c \in Users |-> FALSE]
  /\ unreadCount = [c \in Users |-> 0]
  /\ arrived = [c \in Users |-> 0]
  /\ notifications =
       CreateNotificationForAllUsers(
         CreateNotificationForAllUsers({}, SpotIds[1]), SpotIds[2])
  /\ homeOpen = {}
  /\ spotEvents = {}

SpecOrder == InitSpotCreated /\ [][NextOrder]_vars

\* the checkout: invited users confirm (which creates their payment row) and
\* order; direct upsertSelection calls send the quantities the handlers
\* never send; the recomputation of drink_total_amount may fail
NextCheckout ==
  \/ \E a \in Users, s \in Spots : DeleteSpot(a, s)
  \/ \E u \in Users, s \in Spots : HandleRSVP(u, s, CONFIRMED, TRUE, TRUE)
  \/ \E u \in Users, s \in Spots, b \in Brands, q \in 1..MaxQty :
        HandleAddToCart(u, s, b, q)
  \/ \E row \in selections, q \in (-1)..MaxQty :
        HandleUpdateQuantity(row, q)
  \/ \E row \in selections : HandleRemoveSelection(row)
  \/ \E u \in Users, s \in Spots, b \in Brands, q \in (-1)..0 :
        UpsertSelectionCall(u, s, b, q, base_price[b])
  \/ \E u \in Users, s \in Spots, b \in Brands :
        UpsertSelectionAborted(u, s, b, 1, base_price[b])
  \/ \E row \in selections : DeleteSelectionAborted(row)

SpecCheckout == InitSpotCreated /\ [][NextCheckout]_vars

\* realtime: users confirm and are marked paid (which opens the DrinksPage
\* channels) while change notifications of every event type arrive
NextRealtime ==
  \/ \E u \in Users, s \in Spots : HandleRSVP(u, s, CONFIRMED, TRUE, TRUE)
  \/ \E a \in Users, p \in payments : HandleMarkPaid(a, p.id)
  \/ \E sub \in Subscriptions, e \in EventTypes :
        RealtimeNotify(sub[1], sub[2], e)
  \/ \E n \in inbox : HomeSpotsCallback(n)
  \/ \E n \in inbox : HomeInvitationsCallback(n)
  \/ \E n \in inbox : PaymentsCallback(n)
  \/ \E n \in inbox : DrinksCallback(n)
  \/ \E n \in inbox : ChatCallback(n)

SpecRealtime == InitSpotCreated /\ [][NextRealtime]_vars

\* reads: users answer their invitation and suggest drinks while the
\* accessors are called against a backend that may answer with an error
NextReads ==
  \/ \E u \in Users, s \in Spots : HandleRSVP(u, s, CONFIRMED, TRUE, TRUE)
  \/ \E u \in Users, s \in Spots : HandleAddDrink(u, s)
  \/ \E e \in BackendErrors, s \in Spots : ReadDrinks(e, s)
  \/ \E e \in BackendErrors, s \in Spots : ReadCigarettes(e, s)
  \/ \E e \in BackendErrors, s \in Spots : ReadFoods(e, s)
  \/ \E e \in BackendErrors, s \in Spots, u \in Users :
        ReadUserSelections(e, s, u)
  \/ \E e \in BackendErrors, s \in Spots : ReadAllSelections(e, s)
  \/ \E e \in BackendErrors : ReadDrinkBrands(e)
  \/ \E e \in BackendErrors, s \in Spots : ReadPayments(e, s)
  \/ \E e \in BackendErrors, s \in Spots : ReadInvitations(e, s)
  \/ \E e \in BackendErrors : ReadUpcomingSpot(e)

SpecReads == InitSpotCreated /\ [][NextReads]_vars

\* new-spot notifications: admins create and delete spots while clients
\* open and leave HomePage
NextNotify ==
  \/ CreateSpotSteps
  \/ \E a \in Users, s \in Spots : DeleteSpot(a, s)
  \/ \E c \in Users : HomeSubscribe(c)
  \/ \E c \in Users : HomeUnsubscribe(c)
  \/ \E ev \in spotEvents : HomeSpotsInsertCallback(ev)

SpecNotify == Init /\ [][NextNotify]_vars

\* the chat: clients open the app, enter and leave the chat page, one of
\* them sends and deletes messages, and the change notifications are
\* delivered
NextChat ==
  \/ \E c \in Users : ChatLoad(c)
  \/ \E c \in Users, isActive \in BOOLEAN : SetChatActive(c, isActive)
  \/ SendMessage("u1")
  \/ \E ev \in chatEvents : ChatOnInsert(ev)
  \/ \E m \in chat_messages : DeleteMessage("u1", m.id)
  \/ \E ev \in chatEvents : ChatOnDelete(ev)

SpecChat == InitSpotCreated /\ [][NextChat]_vars

\* reactions: clients open the app and the chat page, one of them sends
\* messages, and all of them react to what they have loaded
NextReactions ==
  \/ \E c \in Users : ChatLoad(c)
  \/ \E c \in Users : SetChatActive(c, TRUE)
  \/ SendMessage("u1")
  \/ \E c \in Users, m \in chat_messages, e \in Emojis :
        AddReaction(c, m.id, e)

SpecReactions == InitSpotCreated /\ [][NextReactions]_vars

\* totals: selection lines are written through the service for users with
\* and without a payment row, and confirmations create payment rows
NextTotals ==
  \/ \E u \in Users, s \in Spots : HandleRSVP(u, s, CONFIRMED, TRUE, TRUE)
  \/ \E u \in Users, s \in Spots, b \in Brands, q \in 1..MaxQty :
        UpsertSelectionCall(u, s, b, q, base_price[b])
  \/ \E row \in selections : HandleRemoveSelection(row)

SpecTotals == InitSpotCreated /\ [][NextTotals]_vars

\* profiles: attendance is recorded while clients update profiles
NextProfile ==
  \/ \E u \in Users, s \in Spots, a \in BOOLEAN : HandleAttendance(u, s, a)
  \/ \E u \in Users, updates \in ProfileUpdates : UpdateProfile(u, updates)

SpecProfile == InitSpotCreated /\ [][NextProfile]_vars

\* the life of two spots: every table that references a spot gets rows for
\* it before an admin deletes the spot
NextCascade ==
  \/ \E a \in Users, s \in Spots : DeleteSpot(a, s)
  \/ \E u \in Users, s \in Spots : HandleRSVP(u, s, CONFIRMED, TRUE, TRUE)
  \/ \E s \in Spots : HandleAttendance("u2", s, TRUE)
  \/ \E s \in Spots : HandleAddToCart("u1", s, "b1", 1)
  \/ \E s \in Spots : HandleAddDrink("u2", s)
  \/ \E s \in Spots : HandleAddCigarette("u1", s)
  \/ \E s \in Spots : HandleAddFood("u2", s)

\* the store when handleCreateSpot has returned twice: both spots exist,
\* every profile is invited to both, the creator is confirmed for both
InitTwoSpots ==
  /\ spots = Spots
  /\ gone = {}
  /\ invitations =
       LET a == CHOOSE x \in Admins : TRUE
       IN  {[id |-> RowId("invitations", <<s, u>>, 0),
             spot_id |-> s, user_id |-> u,
             status |-> IF u = a THEN CONFIRMED ELSE PENDING]
              : s \in Spots, u \in Users}
  /\ payments = {}
  /\ selections = {}
  /\ attendance = {}
  /\ mission_count = [u \in Users |-> 0]
  /\ everAttended = {}
  /\ cs = CsIdle
  /\ pp = PpIdle
  /\ last = [NoOp EXCEPT !.op = "handleCreateSpot", !.spot = SpotIds[2],
                         !.user = CHOOSE a \in Admins : TRUE,
                         !.status = CONFIRMED]
  /\ drinks = {}
  /\ drinkSeq = 0
  /\ calls = [k \in 1..MaxCalls |-> NoCall]
  /\ voteHist = NoVoteHist
  /\ race = NoRace
  /\ base_price = BasePrice
  /\ inbox = {}
  /\ handled = NoNotification
  /\ read = NoRead
  /\ cigarettes = {}
  /\ foods = {}
  /\ profile_name = [u \in Users |-> "Bro"]
  /\ chat_messages = {}
  /\ chatSeq = 0
  /\ chatLoaded = {}
  /\ chatEvents = {}
  /\ messages = [c \in Users |-> <<>>]
  /\ isChatActive = [c \in Users |-> FALSE]
  /\ unreadCount = [c \in Users |-> 0]
  /\ arrived = [c \in Users |-> 0]
  /\ notifications =
       CreateNotificationForAllUsers(
         CreateNotificationForAllUsers({}, SpotIds[1]), SpotIds[2])
  /\ homeOpen = {}
  /\ spotEvents = {}

SpecCascade == InitTwoSpots /\ [][NextCascade]_vars

\* drinks: users suggest drinks for the spot and vote concurrently
NextDrinks ==
  \/ CreateSpotSteps
  \/ \E a \in Users, s \in Spots : DeleteSpot(a, s)
  \/ \E u \in Users, s \in Spots : HandleAddDrink(u, s)
  \/ \E d \in drinks : HandleDeleteDrink(d)
  \/ \E k \in 1..MaxCalls, u \in Users, d \in drinks :
        VoteForDrinkRead(k, u, d)
  \/ \E k \in 1..MaxCalls : VoteForDrinkWrite(k)

SpecDrinks == InitSecondSpot /\ [][NextDrinks]_vars

\* ------------------------------------------------------------------------
\* Properties
\* ------------------------------------------------------------------------

\* C1: for a (spot, user) with a payment row, after any insert, update or
\* delete of one of the user's selection lines the payment's
\* drink_total_amount is the sum of total_price over the remaining lines
\* (0 when none remains).
C1_DrinkTotalAfterSelectionWrite ==
  last.op \in {"upsertSelection", "deleteSelection"} =>
    \A p \in PaymentRows(last.spot, last.user) :
       p.drink_total_amount =
         SumTotalPrice(SelectionRows(last.spot, last.user))

\* C2: the status of an existing payment row changes only in a step of
\* handleMarkPaid / handleMarkUnpaid; no RSVP action changes it.
C2_StatusOnlyByAdminMark ==
  [][\A p \in payments, q \in payments' :
       (p.id = q.id /\ p.status # q.status) =>
          last'.op \in {"markPaid", "markUnpaid"}]_vars

\* C3: for one (spot, user) mission_count is incremented exactly once, on
\* the first transition into attended = true, and never again for that spot.
C3_IncrementOnlyOnFirstAttended ==
  [][\A u \in Users :
       LET first == \E s \in Spots : /\ <<s, u>> \notin everAttended
                                     /\ <<s, u>> \in everAttended'
       IN  /\ first => mission_count'[u] = mission_count[u] + 1
           /\ ~first => mission_count'[u] = mission_count[u]]_vars

\* C4: every profile's mission_count is the number of spots for which the
\* user has an attendance row with attended = true.
C4_MissionCountIsAttendedSpots ==
  \A u \in Users :
     mission_count[u] =
       Cardinality({r \in attendance : r.user_id = u /\ r.attended = TRUE})

\* C5: from mission_count = N and no attendance row, two upsertAttendance
\* (spot, user, true) calls in a row leave exactly one attendance row, with
\* attended = true, and mission_count = N + 1.
C5_TwiceAttendedCountsOnce ==
  (last.op = "upsertAttendance" /\ last.attended /\ last.rep = 2) =>
     /\ mission_count[last.user] = last.base + 1
     /\ Cardinality(AttendanceRows(last.spot, last.user)) = 1
     /\ \A r \in AttendanceRows(last.spot, last.user) : r.attended = TRUE

\* the second of two upsertAttendance(true) calls has run, from N = 1
C5_Witness ==
  /\ last.op = "upsertAttendance" /\ last.attended /\ last.rep = 2
  /\ last.base = 1
  /\ mission_count[last.user] = 2

\* C6: upsertSelection with quantity > 0 leaves exactly one row for its
\* (spot, user, brand), with total_price = quantity * unit_price, and a
\* second call with the same arguments leaves the store as the first call
\* left it.
C6_UpsertSelectionIdempotent ==
  [][(last'.op = "upsertSelection" /\ last'.qty > 0 /\ cs' = cs) =>
       LET rows == {r \in selections' :
                      /\ r.spot_id = last'.spot /\ r.user_id = last'.user
                      /\ r.drink_brand_id = last'.brand}
       IN  /\ Cardinality(rows) = 1
           /\ \A r \in rows :
                 /\ r.quantity = last'.qty
                 /\ r.unit_price = last'.base
                 /\ r.total_price = r.quantity * r.unit_price
           /\ last'.rep = 2 =>
                 (selections' = selections /\ payments' = payments)]_vars

\* the same upsertSelection has run twice in a row, on a user with a
\* payment row
C6_Witness ==
  /\ last.op = "upsertSelection" /\ last.rep = 2 /\ last.qty = 2
  /\ last.had
  /\ \E r \in SelectionRows(last.spot, last.user) :
        r.drink_brand_id = last.brand /\ r.total_price = 2 * r.unit_price

\* C7: after a user without invitation confirms, getPayments(spot) has
\* exactly one row for the user, not_paid with drink_total_amount 0; every
\* row getPayments returns carries the stored drink_total_amount, so after
\* upsertSelection of 2 at unit price 100 as the only line it shows 200.
C7_GetPaymentsShowsDrinkTotal ==
  /\ \A s \in Spots : \A r \in GetPayments(s) :
        /\ "drink_total_amount" \in DOMAIN r
        /\ \A p \in payments :
              p.id = r.id => r.drink_total_amount = p.drink_total_amount
  /\ (last.op = "handleCreateRSVP" /\ last.status = CONFIRMED
        /\ ~last.failed) =>
       /\ Cardinality({r \in GetPayments(last.spot) :
                         r.user_id = last.user}) = 1
       /\ \A r \in GetPayments(last.spot) :
             r.user_id = last.user =>
                /\ r.status = NOT_PAID
                /\ "drink_total_amount" \in DOMAIN r
                /\ r.drink_total_amount = 0
  /\ (last.op = "upsertSelection" /\ last.qty = 2 /\ last.base = 100
        /\ Cardinality(SelectionRows(last.spot, last.user)) = 1) =>
       \A r \in GetPayments(last.spot) :
          r.user_id = last.user =>
             /\ "drink_total_amount" \in DOMAIN r
             /\ r.drink_total_amount = 200

\* C8: however often invitations are confirmed and PaymentPage is loaded,
\* there is at most one payment row per (spot, user), and exactly one after
\* a confirmation whose payment write did not fail.
C8_OnePaymentRowPerUser ==
  /\ \A s \in Spots, u \in Users :
        /\ Cardinality(PaymentRows(s, u)) <= 1
        /\ Cardinality({r \in GetPayments(s) : r.user_id = u}) <= 1
  /\ (last.op \in {"handleRSVP", "handleCreateRSVP"}
        /\ last.status = CONFIRMED /\ ~last.failed) =>
       Cardinality({r \in GetPayments(last.spot) :
                      r.user_id = last.user}) = 1

\* an invitation was confirmed again while its payment row existed
C8_Witness ==
  /\ last.op = "handleRSVP" /\ last.status = CONFIRMED
  /\ last.had /\ ~last.failed
  /\ Cardinality({r \in GetPayments(last.spot) :
                    r.user_id = last.user}) = 1

\* C9: when an operation that moves an invitation into confirmed has
\* completed without a payment-write failure (handleRSVP, handleCreateRSVP,
\* the creator's auto-confirmation of handleCreateSpot), a payment row
\* exists for that (spot, user).
C9_ConfirmedHasPaymentRow ==
  (/\ last.op \in {"handleRSVP", "handleCreateRSVP", "handleCreateSpot"}
   /\ last.status = CONFIRMED /\ ~last.failed
   /\ \E i \in InvitationRows(last.spot, last.user) : i.status = CONFIRMED)
  => PaymentRows(last.spot, last.user) # {}

\* C10: between the spot insert and the end of handleCreateSpot the
\* creator's invitation for the new spot is never pending.
C10_CreatorNeverPending ==
  cs.pc # "idle" =>
    \A i \in InvitationRows(cs.spot, cs.creator) : i.status # PENDING

\* C11: when the payment upsert (or the user-id resolution in the same inner
\* try block) fails after the invitation write to confirmed succeeded, the
\* invitation is confirmed in the store, the handler raises no alert and
\* refetches; the payment row is still missing and is within reach of a
\* repeated confirmation and of the PaymentPage backfill.
C11_PaymentFailureKeepsRsvp ==
  [][\A s \in Spots, u \in Users :
       (/\ last' # last
        /\ last'.op \in {"handleRSVP", "handleCreateRSVP"}
        /\ last'.spot = s /\ last'.user = u
        /\ last'.status = CONFIRMED /\ last'.failedAt = "payment") =>
          /\ Cardinality(InvitationRows(s, u)') = 1
          /\ \A i \in InvitationRows(s, u)' : i.status = CONFIRMED
          /\ ~last'.alerted
          /\ last'.refetched
          /\ payments' = payments
          /\ s \in spots'
          /\ (PaymentRows(s, u)' = {} => u \in MissingPayments(s)')]_vars

\* a confirmation whose payment write failed has completed: the invitation
\* is confirmed, nothing was reported, and the user has no payment row
C11_Witness ==
  /\ last.op = "handleRSVP" /\ last.status = CONFIRMED
  /\ last.failedAt = "payment" /\ ~last.alerted /\ last.refetched
  /\ \E i \in InvitationRows(last.spot, last.user) : i.status = CONFIRMED
  /\ PaymentRows(last.spot, last.user) = {}

\* C12: two voteForDrink(d, u) calls in a row, with no other write to the
\* drink in between, return the drink to its original votes count and its
\* original set of voters.
C12_VoteTwiceRestores ==
  voteHist.stage = "twice" =>
    \A r \in drinks :
       r.id = voteHist.drink =>
          /\ r.votes = voteHist.votes
          /\ Voters(r.voted_by) = voteHist.voters

\* a user who had voted has toggled twice on a drink another user voted for
C12_Witness ==
  /\ voteHist.stage = "twice"
  /\ voteHist.votes = 2
  /\ voteHist.user \in voteHist.voters
  /\ \E r \in drinks : r.id = voteHist.drink /\ r.votes = 2

\* C13: under every interleaving of the reads and writes of concurrent
\* voteForDrink calls every stored drink has votes = number of ids in
\* voted_by, votes >= 0, and no user id twice in voted_by.
C13_VotesMatchVoters ==
  \A r \in drinks :
     /\ r.votes = Len(r.voted_by)
     /\ r.votes >= 0
     /\ Cardinality(Voters(r.voted_by)) = Len(r.voted_by)

\* two calls read the same row before either wrote, and one write is lost
C13_Witness ==
  /\ \E k \in DOMAIN calls :
        /\ calls[k] # NoCall
        /\ calls[k].voted_by = <<>>
        /\ \E r \in drinks :
              /\ r.id = calls[k].drink
              /\ r.votes = 1
              /\ calls[k].user \notin Voters(r.voted_by)

\* C14: updateQuantity(selection, q) with q <= 0 deletes that line and
\* upserts nothing; getUserSelections(spot, user) afterwards does not
\* include the line.
C14_UpdateQuantityZeroDeletes ==
  [][\A row \in selections :
       (/\ last' # last
        /\ last'.via = "handleUpdateQuantity"
        /\ last'.qty <= 0
        /\ last'.spot = row.spot_id /\ last'.user = row.user_id
        /\ last'.brand = row.drink_brand_id) =>
          /\ last'.op = "deleteSelection"
          /\ selections' = selections \ {row}
          /\ \A r \in GetUserSelections(row.spot_id, row.user_id)' :
                r.id # row.id /\ r.drink_brand_id # row.drink_brand_id]_vars

\* updateQuantity(selection, 0) has removed one of the user's two lines
C14_Witness ==
  /\ last.op = "deleteSelection" /\ last.via = "handleUpdateQuantity"
  /\ last.qty = 0
  /\ Cardinality(GetUserSelections(last.spot, last.user)) = 1
  /\ \A r \in GetUserSelections(last.spot, last.user) :
        r.drink_brand_id # last.brand

C16_QuantityPositive ==
  [][/\ \A r \in selections' :
          r.quantity >= 1 /\ r.total_price = r.quantity * r.unit_price
     /\ (last' # last /\ last'.op = "upsertSelection" /\ last'.qty <= 0) =>
          /\ last'.failed
          /\ selections' = selections
          /\ payments' = payments]_vars

\* an upsertSelection with quantity 0 on an existing line was rejected
C16_Witness ==
  /\ last.op = "upsertSelection" /\ last.qty = 0 /\ last.failed
  /\ \E r \in SelectionRows(last.spot, last.user) :
        r.drink_brand_id = last.brand /\ r.quantity >= 1

\* C17: under every interleaving of the invitation fan-out of
\* handleCreateSpot with the users' own RSVP writes there is at most one
\* invitation row per (spot, user), and its status is pending, confirmed or
\* declined.
C17_OneInvitationPerUser ==
  /\ \A s \in Spots, u \in Users : Cardinality(InvitationRows(s, u)) <= 1
  /\ \A i \in invitations : i.status \in InvitationStatus

\* while the fan-out is still running, a user whose pending invitation it
\* has already written declines through handleCreateRSVP
C17_Witness ==
  /\ cs.pc = "fanout"
  /\ last.op = "handleCreateRSVP" /\ last.status = DECLINED
  /\ last.spot = cs.spot /\ last.user \notin cs.todo
  /\ Cardinality(InvitationRows(last.spot, last.user)) = 1
  /\ \A i \in InvitationRows(last.spot, last.user) : i.status = DECLINED

\* C18: when the recomputation of drink_total_amount fails during an
\* insert, update or delete of a selection line, the selection write is
\* committed all the same and the selection operation reports no failure.
C18_RecomputeFailureKeepsWrite ==
  [][(last' # last /\ last'.failedAt = "trigger") =>
       /\ ~last'.failed
       /\ last'.op = "upsertSelection" =>
             \E r \in selections' :
                /\ r.spot_id = last'.spot /\ r.user_id = last'.user
                /\ r.drink_brand_id = last'.brand
                /\ r.quantity = last'.qty /\ r.unit_price = last'.base
       /\ last'.op = "deleteSelection" =>
             \A r \in selections' :
                ~(/\ r.spot_id = last'.spot /\ r.user_id = last'.user
                  /\ r.drink_brand_id = last'.brand)]_vars

\* C19: for every realtime change notification delivered on a subscribed
\* table, whatever its event type, the consuming screen refetches the
\* affected collection (HomePage on spots and invitations, PaymentPage on
\* payments, DrinksPage on drinks and user_drink_selections, the chat
\* provider on chat_messages).
C19_EveryNotificationRefetches ==
  handled # NoNotification => handled.effect = "fetchData"

\* C20: every read accessor that meets a schema-missing error (the backing
\* table or column does not exist) returns an empty result instead of
\* propagating the error: getDrinks, getCigarettes, getFoods, and equally
\* getUserSelections, getAllSelections, getDrinkBrands, getPayments,
\* getInvitations and getUpcomingSpot.
C20_SchemaMissingReadsEmpty ==
  read.error \in SchemaMissing => (read.kind = "returns" /\ read.rows = {})

\* C21: after deleteSpot(s) has succeeded no attendance, drink, cigarette,
\* food, user_drink_selection, invitation or payment row references s, and
\* the rows of every other spot are as they were.
C21_DeleteSpotCascades ==
  [][\A s \in Spots :
       (last' # last /\ last'.op = "deleteSpot" /\ last'.spot = s) =>
          /\ s \notin spots'
          /\ attendance' = {r \in attendance : r.spot_id # s}
          /\ drinks' = {r \in drinks : r.spot_id # s}
          /\ cigarettes' = {r \in cigarettes : r.spot_id # s}
          /\ foods' = {r \in foods : r.spot_id # s}
          /\ selections' = {r \in selections : r.spot_id # s}
          /\ invitations' = {r \in invitations : r.spot_id # s}
          /\ payments' = {r \in payments : r.spot_id # s}]_vars

\* the first spot was deleted while the second spot had an attendance row,
\* a cart line, a drink, invitations and a payment; those are still there
\* and no row of the first spot is
C21_Witness ==
  /\ last.op = "deleteSpot" /\ last.spot = SpotIds[1]
  /\ SpotIds[2] \in spots
  /\ \A r \in attendance \cup selections \cup invitations \cup payments
               \cup drinks \cup cigarettes \cup foods :
        r.spot_id = SpotIds[2]
  /\ \E r \in attendance : r.spot_id = SpotIds[2]
  /\ \E r \in selections : r.spot_id = SpotIds[2]
  /\ \E r \in drinks : r.spot_id = SpotIds[2]
  /\ \E r \in payments : r.spot_id = SpotIds[2]
  /\ Cardinality({r \in invitations : r.spot_id = SpotIds[2]}) = 2

\* C22: a profile's mission_count is written only by the attendance
\* trigger; no operation exposed to the client, in particular
\* profileService.updateProfile with an arbitrary partial profile, sets it.
C22_MissionCountOnlyByTrigger ==
  [][\A u \in Users :
       mission_count'[u] # mission_count[u] =>
          last'.op = "upsertAttendance"]_vars

\* C23: drink_total_amount equals the sum of the user's selection totals at
\* all times, also right after upsertPayment has inserted the payment row of
\* a (spot, user) that already has selection lines: the new row carries the
\* sum of those lines, not the column default.
C23_DrinkTotalIsSum ==
  \A p \in payments :
     p.drink_total_amount =
       SumTotalPrice(SelectionRows(p.spot_id, p.user_id))

\* C25: when two distinct users who have not voted for a drink each complete
\* one voteForDrink call on it, then in every interleaving of the reads and
\* writes of the two calls both users are in voted_by and votes has grown
\* by 2.
C25_NoVoteLost ==
  (Cardinality(race.joined) = 2 /\ race.done = race.joined) =>
     \A r \in drinks :
        r.id = race.drink =>
           /\ race.joined \subseteq Voters(r.voted_by)
           /\ r.votes = race.base + 2

\* C26: loading PaymentPage (fetchData) only creates not_paid payment rows
\* for confirmed users that have none: under any interleaving with other
\* clients' confirmations and the admin's markPaid no write of a load turns
\* an existing payment from paid to not_paid, and when a load has completed
\* without error every confirmed invitation of the spot has a payment row.
C26_LoadOnlyBackfills ==
  [][/\ (pp.pc = "upsert" /\ pp' # pp) =>
          \A p \in payments, q \in payments' :
             (p.id = q.id /\ p.status = PAID) => q.status = PAID
     /\ (last' # last /\ last'.op = "fetchPayments" /\ ~last'.failed) =>
          \A s \in Spots : last'.spot = s => MissingPayments(s)' = {}]_vars

\* C27: changing an invitation from confirmed to declined or pending
\* (handleRSVP) leaves the payment row of that (spot, user) as it is: the
\* row is not deleted and keeps its status and drink_total_amount; a payment
\* row, once created, disappears only when its spot is deleted.
C27_DeclineKeepsPayment ==
  [][/\ \A s \in Spots, u \in Users :
          (/\ last' # last /\ last'.op = "handleRSVP"
           /\ last'.spot = s /\ last'.user = u
           /\ last'.status \in {DECLINED, PENDING}
           /\ \E i \in InvitationRows(s, u) : i.status = CONFIRMED) =>
             PaymentRows(s, u)' = PaymentRows(s, u)
     /\ \A p \in payments :
          (\A q \in payments' : q.id # p.id) =>
             (last'.op = "deleteSpot" /\ last'.spot = p.spot_id)]_vars

\* a user whose payment had been marked paid has declined: the invitation
\* is declined and the paid row is still there
C27_Witness ==
  /\ last.op = "handleRSVP" /\ last.status = DECLINED
  /\ ~last.failed /\ last.had
  /\ \A i \in InvitationRows(last.spot, last.user) : i.status = DECLINED
  /\ \E p \in PaymentRows(last.spot, last.user) : p.status = PAID

\* C24: a message's reactions map an emoji to the set of users who reacted:
\* when user A has added reaction e to a message from one client and user B
\* afterwards adds e to the same message from another client, the stored
\* reactions[e] holds both A and B; one user's addReaction never removes
\* another user's id.
C24_ReactionsKeepOtherUsers ==
  [][\A m \in chat_messages, n \in chat_messages' :
       m.id = n.id =>
         \A e \in Emojis, u \in Users :
            (u \in Voters(m.reactions[e]) /\ u \notin Voters(n.reactions[e]))
               => (last'.op = "addReaction" /\ last'.user = u)]_vars

\* C28: in every reachable state every message id occurs at most once in a
\* chat provider's local message list, in particular once sendMessage has
\* appended its own message and the INSERT notification of the same row has
\* been delivered, in either order.
C28_MessageIdsUnique ==
  \A c \in Users :
     \A i, j \in DOMAIN messages[c] :
        i # j => messages[c][i].id # messages[c][j].id

\* C29: unreadCount is 0 whenever the chat is active, and while the chat is
\* inactive it is the number of messages that arrived since the chat was
\* last active; the initial load, leaving the chat and a message deletion
\* do not increment it.
C29_UnreadCountsArrivals ==
  \A c \in Users :
     /\ isChatActive[c] => unreadCount[c] = 0
     /\ ~isChatActive[c] => unreadCount[c] = arrived[c]

\* C30: one spot creation results in exactly one "New Spot Created!"
\* notification row per profile, however many clients have HomePage open
\* with an active spots subscription when the insert event is delivered.
C30_OneNotificationPerProfile ==
  \A s \in Spots, u \in Users :
     LET rows == {n \in notifications :
                    /\ n.spot = s /\ n.user_id = u
                    /\ n.title = "New Spot Created!"}
     IN  /\ Cardinality(rows) <= 1
         /\ (last.op = "handleCreateSpot" /\ ~last.failed /\ last.spot = s)
               => Cardinality(rows) = 1

====
